---- MODULE Spec2Model ----
(***************************************************************************)
(* The validation engine of monit (src/src/validate.c): the cycle driver   *)
(* validate(), the per-kind validators check_process ... check_system, the *)
(* test evaluators, check_connection, check_timeout, check_skip and        *)
(* do_scheduled_action.                                                    *)
(*                                                                         *)
(* A C function f(s, ...) is an operator f(c, ...) on a context            *)
(*   c = [s |-> the service record, ev |-> the events posted so far,       *)
(*        calls |-> the collaborator and validator calls made so far]      *)
(* that returns the context after the call (and the return value, where    *)
(* the function has one).  The results of the probes the function consults *)
(* (stat, icmp_echo, socket_create, ...) are its extra arguments; the      *)
(* actions draw them from bounded sets.                                    *)
(***************************************************************************)
EXTENDS Integers, Sequences, FiniteSets, TLC

VARIABLES
    servicelist,   \* the service list: a sequence of service records
    Run,           \* Run.doaction, Run.doprocess, Run.stopped, Run.handler_flag
    systeminfo,    \* the system-wide snapshot refreshed at cycle start
    pc,            \* position of validate(): "idle" | "loop"
    idx,           \* the main loop's s: index into servicelist
    errors,        \* validate()'s local error counter
    now,           \* validate()'s local now = Time_now()
    clock,         \* wall clock, in seconds
    events,        \* events posted since the current cycle began
    calls,         \* calls made since the current cycle began
    startError,    \* each service's error bitmap when the current cycle began
    previous,      \* events posted in the cycle before the current one
    returned,      \* value returned by the last completed validate()
    cycle          \* number of completed cycles

vars == <<servicelist, Run, systeminfo, pc, idx, errors, now, clock, events,
          calls, startError, previous, returned, cycle>>

(* ------------------------------------------------------------- bounds *)

MaxCycles == 4
MaxRetry == 3
MaxDelay == 1

(* -------------------------------------------------------- definitions *)

MATCH_LINE_LENGTH == 512

MONITOR_NOT == {}
MONITOR_YES == {"YES"}
MONITOR_INIT == {"INIT"}
MONITOR_WAITING == {"WAITING"}

NULL == <<>>

Last(q) == q[Len(q)]

Merge(r, o) == [f \in DOMAIN r |-> IF f \in DOMAIN o THEN o[f] ELSE r[f]]

\* The rest of a function body, Op, run on the value v its earlier part left.
With(v, Op(_)) == Op(v)

(* ---------------------------------------------------------- event sink *)

\* The states that put a kind into the service's error bitmap.
IsErrorState(state) == state \in {"FAILED", "CHANGED"}

\* Event_post(s, id, state, action, msg): records the event, keeps the error
\* bitmap, and runs the bound action when the state is FAILED or CHANGED; the
\* only action the model gives an effect is unmonitor (monitor := MONITOR_NOT).
Event_post(c, id, state, action, msg) ==
    [c EXCEPT
       !.ev = Append(@, [svc |-> c.s.name, id |-> id, state |-> state,
                         action |-> action, msg |-> msg]),
       !.s.error = IF IsErrorState(state) THEN @ \cup {id} ELSE @ \ {id},
       !.s.monitor = IF IsErrorState(state) /\ action = "ACTION_UNMONITOR"
                     THEN MONITOR_NOT ELSE @]

IS_EVENT_SET(error, id) == id \in error

\* A call of a collaborator or of a function of validate.c, for the record.
Called(c, fn, arg, rv) ==
    [c EXCEPT !.calls = Append(@, [svc |-> c.s.name, fn |-> fn, arg |-> arg,
                                   rv |-> rv, monitor |-> c.s.monitor,
                                   visited |-> c.s.visited])]

(* ------------------------------------------------ expression evaluator *)

Util_evalQExpression(operator, left, right) ==
    CASE operator = "Operator_Greater"        -> left > right
      [] operator = "Operator_GreaterOrEqual" -> left >= right
      [] operator = "Operator_Less"           -> left < right
      [] operator = "Operator_LessOrEqual"    -> left <= right
      [] operator = "Operator_Equal"          -> left = right
      [] operator = "Operator_NotEqual"       -> left # right
      [] OTHER                                -> FALSE

(* ---------------------------------------------------- check_connection *)

SOCK_STREAM == "SOCK_STREAM"
SOCK_DGRAM == "SOCK_DGRAM"

\* Whether check_connection asks socket_is_ready (line 618).
NeedsReady(p) == p.type # SOCK_DGRAM \/ p.protocol = "check_default"

\* Util_portDescription(p, buf, sizeof(buf))
Util_portDescription(p) == "INET[" \o ToString(p.port) \o "]"

\* What one attempt finds: "" when nothing failed, else the report it writes.
AttemptReport(p, o) ==
    IF ~o.socket
    THEN "failed, cannot open a connection to " \o Util_portDescription(p)
    ELSE IF NeedsReady(p) /\ ~o.ready
    THEN "connection failed, " \o Util_portDescription(p)
           \o " is not ready for i|o"
    ELSE IF ~o.check
    THEN "failed protocol test at " \o Util_portDescription(p)
    ELSE ""

\* A faulty variant of RetryAgain: the test retry_count-- > 2.
RetryAgainFromTwo(retry_count) == retry_count > 2

\* retry_count-- > 1 (line 642)
RetryAgain(retry_count) == retry_count > 1

\* rv as the attempt leaves it: set to FALSE by a failure, never set back.
AttemptRv(rv, failed) == IF failed THEN FALSE ELSE rv

\* One pass from the label retry: to the end of the function, or back to retry.
\* outs[k] is what the k-th attempt finds; the call record of socket_create
\* keeps what the attempt reported ("" when nothing failed).
RECURSIVE connection_attempt(_, _, _, _, _, _, _)
connection_attempt(c, pi, outs, k, retry_count, rv, report) ==
    LET p == c.s.portlist[pi]
        o == outs[k]
        r == AttemptReport(p, o)
        failed == r # ""
        report1 == IF failed THEN r ELSE report
        rv1 == AttemptRv(rv, failed)
    IN  With(Called(c, "socket_create", pi, r), LAMBDA c1 :
        With(IF failed THEN c1
             ELSE [c1 EXCEPT !.s.portlist[pi].response = o.dt], LAMBDA c2 :
        IF ~rv1
        THEN IF RetryAgain(retry_count)
             THEN connection_attempt(c2, pi, outs, k + 1, retry_count - 1,
                                     rv1, report1)
             ELSE Event_post(
                    [c2 EXCEPT !.s.portlist[pi].response = -1,
                               !.s.portlist[pi].is_available = FALSE],
                    "Connection", "FAILED", p.action, report1)
        ELSE Event_post([c2 EXCEPT !.s.portlist[pi].is_available = TRUE],
                        "Connection", "SUCCEEDED", p.action,
                        "connection succeeded to "
                          \o Util_portDescription(p))))

check_connection(c, pi, outs) ==
    connection_attempt(c, pi, outs, 1, c.s.portlist[pi].retry, TRUE, "")

\* A faulty variant of check_ports: the loop ends at the first port found
\* unavailable.
RECURSIVE check_ports_break(_, _, _)
check_ports_break(c, pi, conn) ==
    IF pi > Len(c.s.portlist) THEN c
    ELSE With(check_connection(c, pi, conn[pi]), LAMBDA c1 :
         IF c1.s.portlist[pi].is_available
         THEN check_ports_break(c1, pi + 1, conn)
         ELSE c1)

\* for (p = s->portlist; p; p = p->next) check_connection(s, p);
RECURSIVE check_ports(_, _, _)
check_ports(c, pi, conn) ==
    IF pi > Len(c.s.portlist) THEN c
    ELSE check_ports(check_connection(c, pi, conn[pi]), pi + 1, conn)

(* ------------------------------------------------------ test evaluators *)

PROCESS_ZOMBIE == "PROCESS_ZOMBIE"

check_process_state(c) ==
    IF PROCESS_ZOMBIE \in c.s.inf.process.status_flag
    THEN Event_post(c, "Data", "FAILED", c.s.action_DATA, "process is a zombie")
    ELSE Event_post(c, "Data", "SUCCEEDED", c.s.action_DATA,
                    "check process state succeeded")

check_process_pid(c) ==
    IF c.s.inf.process._pid = -1 THEN c
    ELSE IF c.s.inf.process._pid # c.s.inf.process.pid
    THEN Event_post(c, "Pid", "CHANGED", c.s.action_PID, "process PID changed")
    ELSE Event_post(c, "Pid", "CHANGEDNOT", c.s.action_PID,
                    "process PID has not changed since last cycle")

\* A faulty variant of check_process_ppid: the test runs on a parent pid that
\* was not initialized yet.
check_process_ppid_eager(c) ==
    IF c.s.inf.process._ppid # c.s.inf.process.ppid
    THEN Event_post(c, "PPid", "CHANGED", c.s.action_PPID, "process PPID changed")
    ELSE Event_post(c, "PPid", "CHANGEDNOT", c.s.action_PPID,
                    "process PPID has not changed since last cycle")

check_process_ppid(c) ==
    IF c.s.inf.process._ppid = -1 THEN c
    ELSE IF c.s.inf.process._ppid # c.s.inf.process.ppid
    THEN Event_post(c, "PPid", "CHANGED", c.s.action_PPID, "process PPID changed")
    ELSE Event_post(c, "PPid", "CHANGEDNOT", c.s.action_PPID,
                    "process PPID has not changed since last cycle")

\* The resources whose test is skipped while initializing or on a negative sample.
CpuResources == {"RESOURCE_ID_CPU_PERCENT", "RESOURCE_ID_TOTAL_CPU_PERCENT",
                 "RESOURCE_ID_CPUUSER", "RESOURCE_ID_CPUSYSTEM",
                 "RESOURCE_ID_CPUWAIT"}

\* The resources tested on a system service only.
SystemOnlyResources == {"RESOURCE_ID_SWAP_PERCENT", "RESOURCE_ID_SWAP_KBYTE"}

KnownResources == CpuResources \cup SystemOnlyResources \cup
    {"RESOURCE_ID_MEM_PERCENT", "RESOURCE_ID_MEM_KBYTE", "RESOURCE_ID_LOAD1",
     "RESOURCE_ID_LOAD5", "RESOURCE_ID_LOAD15", "RESOURCE_ID_CHILDREN",
     "RESOURCE_ID_TOTAL_MEM_KBYTE", "RESOURCE_ID_TOTAL_MEM_PERCENT"}

\* The sample check_process_resources compares for resource id on service s.
\* loadavg is kept scaled by 10, as (int)(loadavg * 10.0) reads it.
ResourceSample(s, sys, id) ==
    CASE id = "RESOURCE_ID_CPU_PERCENT"       -> s.inf.process.cpu_percent
      [] id = "RESOURCE_ID_TOTAL_CPU_PERCENT" -> s.inf.process.total_cpu_percent
      [] id = "RESOURCE_ID_CPUUSER"           -> sys.total_cpu_user_percent
      [] id = "RESOURCE_ID_CPUSYSTEM"         -> sys.total_cpu_syst_percent
      [] id = "RESOURCE_ID_CPUWAIT"           -> sys.total_cpu_wait_percent
      [] id = "RESOURCE_ID_MEM_PERCENT" ->
            IF s.type = "TYPE_SYSTEM" THEN sys.total_mem_percent
            ELSE s.inf.process.mem_percent
      [] id = "RESOURCE_ID_MEM_KBYTE" ->
            IF s.type = "TYPE_SYSTEM" THEN sys.total_mem_kbyte
            ELSE s.inf.process.mem_kbyte
      [] id = "RESOURCE_ID_SWAP_PERCENT"      -> sys.total_swap_percent
      [] id = "RESOURCE_ID_SWAP_KBYTE"        -> sys.total_swap_kbyte
      [] id = "RESOURCE_ID_LOAD1"             -> sys.loadavg[1]
      [] id = "RESOURCE_ID_LOAD5"             -> sys.loadavg[2]
      [] id = "RESOURCE_ID_LOAD15"            -> sys.loadavg[3]
      [] id = "RESOURCE_ID_CHILDREN"          -> s.inf.process.children
      [] id = "RESOURCE_ID_TOTAL_MEM_KBYTE"   -> s.inf.process.total_mem_kbyte
      [] id = "RESOURCE_ID_TOTAL_MEM_PERCENT" -> s.inf.process.total_mem_percent
      [] OTHER -> 0

\* Whether the switch of check_process_resources leaves the comparison out:
\* a cpu resource while MONITOR_INIT is set or the sample is negative, a swap
\* resource on a service that is not the system service.
ResourceSkipped(s, sys, id) ==
    \/ id \in CpuResources
       /\ (MONITOR_INIT \subseteq s.monitor \/ ResourceSample(s, sys, id) < 0)
    \/ id \in SystemOnlyResources /\ s.type # "TYPE_SYSTEM"

check_process_resources(c, sys, ri) ==
    LET r == c.s.resourcelist[ri]
        skipped == ResourceSkipped(c.s, sys, r.resource_id)
        hit == ~skipped /\ Util_evalQExpression(r.operator,
                              ResourceSample(c.s, sys, r.resource_id), r.limit)
        okay == ~hit
        report == IF skipped THEN ""
                  ELSE IF hit THEN "matches resource limit"
                  ELSE "check succeeded"
    IN  IF r.resource_id \notin KnownResources THEN c
        ELSE IF ~okay
        THEN Event_post(c, "Resource", "FAILED", r.action, report)
        ELSE Event_post(c, "Resource", "SUCCEEDED", r.action, report)

RECURSIVE check_resources(_, _, _)
check_resources(c, sys, ri) ==
    IF ri > Len(c.s.resourcelist) THEN c
    ELSE check_resources(check_process_resources(c, sys, ri), sys, ri + 1)

\* Length of the prefix strncmp compares for the hash type; 0: unknown type.
HashLength(type) ==
    CASE type = "HASH_MD5" -> 32 [] type = "HASH_SHA1" -> 40 [] OTHER -> 0

\* The first n characters of a digest.  A digest is a pair <<head, tail>>:
\* head stands for its first 32 characters, tail for the rest.
HashPrefix(sum, n) == IF n <= 32 THEN <<sum[1]>> ELSE sum

\* A faulty variant of check_checksum: a changed digest is reported and the
\* expected one is kept.
check_checksum_keep(c, sum) ==
    LET cs == c.s.checksum[1]
    IN  IF sum # NULL
        THEN With(Event_post([c EXCEPT !.s.inf.file.cs_sum = sum[1]],
                             "Data", "SUCCEEDED", c.s.action_DATA,
                             "checksum computed"), LAMBDA c1 :
             With(IF ~cs.initialized
                  THEN [c1 EXCEPT !.s.checksum[1].initialized = TRUE,
                                  !.s.checksum[1].hash = sum[1]]
                  ELSE c1, LAMBDA c2 :
             LET n == HashLength(cs.type)
                 changed == HashPrefix(c2.s.checksum[1].hash, n)
                              # HashPrefix(sum[1], n)
             IN  IF n = 0 THEN [c2 EXCEPT !.s.inf.file.cs_sum = <<"", "">>]
                 ELSE IF changed
                 THEN IF cs.test_changes
                      THEN Event_post(c2, "Checksum", "CHANGED", cs.action,
                                      "checksum was changed")
                      ELSE Event_post(c2, "Checksum", "FAILED", cs.action,
                                      "checksum test failed")
                 ELSE IF cs.test_changes
                 THEN Event_post(c2, "Checksum", "CHANGEDNOT", cs.action,
                                 "checksum has not changed")
                 ELSE Event_post(c2, "Checksum", "SUCCEEDED", cs.action,
                                 "checksum succeeded")))
        ELSE Event_post(c, "Data", "FAILED", c.s.action_DATA,
                        "cannot compute checksum")

\* sum: what Util_getChecksum returns, NULL on failure, else <<digest>>.
check_checksum(c, sum) ==
    LET cs == c.s.checksum[1]
    IN  IF sum # NULL
        THEN With(Event_post([c EXCEPT !.s.inf.file.cs_sum = sum[1]],
                             "Data", "SUCCEEDED", c.s.action_DATA,
                             "checksum computed"), LAMBDA c1 :
             With(IF ~cs.initialized
                  THEN [c1 EXCEPT !.s.checksum[1].initialized = TRUE,
                                  !.s.checksum[1].hash = sum[1]]
                  ELSE c1, LAMBDA c2 :
             LET n == HashLength(cs.type)
                 changed == HashPrefix(c2.s.checksum[1].hash, n)
                              # HashPrefix(sum[1], n)
             IN  IF n = 0 THEN [c2 EXCEPT !.s.inf.file.cs_sum = <<"", "">>]
                 ELSE IF changed
                 THEN IF cs.test_changes
                      THEN [Event_post(c2, "Checksum", "CHANGED", cs.action,
                                       "checksum was changed")
                              EXCEPT !.s.checksum[1].hash = sum[1]]
                      ELSE Event_post(c2, "Checksum", "FAILED", cs.action,
                                      "checksum test failed")
                 ELSE IF cs.test_changes
                 THEN Event_post(c2, "Checksum", "CHANGEDNOT", cs.action,
                                 "checksum has not changed")
                 ELSE Event_post(c2, "Checksum", "SUCCEEDED", cs.action,
                                 "checksum succeeded")))
        ELSE Event_post(c, "Data", "FAILED", c.s.action_DATA,
                        "cannot compute checksum")

check_perm(c) ==
    IF c.s.inf.st_mode.perm # c.s.perm[1].perm
    THEN Event_post(c, "Permission", "FAILED", c.s.perm[1].action,
                    "permission test failed")
    ELSE Event_post(c, "Permission", "SUCCEEDED", c.s.perm[1].action,
                    "permission succeeded")

check_uid(c) ==
    IF c.s.inf.st_uid # c.s.uid[1].uid
    THEN Event_post(c, "Uid", "FAILED", c.s.uid[1].action, "uid test failed")
    ELSE Event_post(c, "Uid", "SUCCEEDED", c.s.uid[1].action, "uid succeeded")

check_gid(c) ==
    IF c.s.inf.st_gid # c.s.gid[1].gid
    THEN Event_post(c, "Gid", "FAILED", c.s.gid[1].action, "gid test failed")
    ELSE Event_post(c, "Gid", "SUCCEEDED", c.s.gid[1].action, "gid succeeded")

\* A faulty variant of timestamp_walk: a changed timestamp is reported and
\* not stored.
RECURSIVE timestamp_walk_stale(_, _, _)
timestamp_walk_stale(c, t, ti) ==
    IF ti > Len(c.s.timestamplist) THEN c
    ELSE LET d == c.s.timestamplist[ti]
         IN  IF d.test_changes
             THEN IF d.timestamp # c.s.inf.timestamp
                  THEN Event_post(c, "Timestamp", "CHANGED", d.action,
                                  "timestamp was changed")
                  ELSE Event_post(c, "Timestamp", "CHANGEDNOT", d.action,
                                  "timestamp was not changed")
             ELSE timestamp_walk_stale(
                    IF Util_evalQExpression(d.operator, t - c.s.inf.timestamp,
                                            d.time)
                    THEN Event_post(c, "Timestamp", "FAILED", d.action,
                                    "timestamp test failed")
                    ELSE Event_post(c, "Timestamp", "SUCCEEDED", d.action,
                                    "timestamp succeeded"),
                    t, ti + 1)

\* The list walk of check_timestamp from descriptor ti on; t is time(&now).
RECURSIVE timestamp_walk(_, _, _)
timestamp_walk(c, t, ti) ==
    IF ti > Len(c.s.timestamplist) THEN c
    ELSE LET d == c.s.timestamplist[ti]
         IN  IF d.test_changes
             THEN IF d.timestamp # c.s.inf.timestamp
                  THEN Event_post(
                         [c EXCEPT !.s.timestamplist[ti].timestamp =
                                      c.s.inf.timestamp],
                         "Timestamp", "CHANGED", d.action, "timestamp was changed")
                  ELSE Event_post(c, "Timestamp", "CHANGEDNOT", d.action,
                                  "timestamp was not changed")
             ELSE timestamp_walk(
                    IF Util_evalQExpression(d.operator, t - c.s.inf.timestamp,
                                            d.time)
                    THEN Event_post(c, "Timestamp", "FAILED", d.action,
                                    "timestamp test failed")
                    ELSE Event_post(c, "Timestamp", "SUCCEEDED", d.action,
                                    "timestamp succeeded"),
                    t, ti + 1)

\* t: what time(&now) returns, -1 on failure.
check_timestamp(c, t) ==
    IF t = -1
    THEN Event_post(c, "Data", "FAILED", c.s.action_DATA,
                    "can't obtain actual system time")
    ELSE timestamp_walk(Event_post(c, "Data", "SUCCEEDED", c.s.action_DATA,
                                   "actual system time obtained"), t, 1)

\* A faulty variant of size_walk that walks on behind a descriptor in
\* changes-only mode.
RECURSIVE size_walk_on(_, _)
size_walk_on(c, si) ==
    IF si > Len(c.s.sizelist) THEN c
    ELSE LET sl == c.s.sizelist[si]
             size == c.s.inf.file.st_size
         IN  IF sl.test_changes
             THEN size_walk_on(
                    IF ~sl.initialized
                    THEN [c EXCEPT !.s.sizelist[si].initialized = TRUE,
                                   !.s.sizelist[si].size = size]
                    ELSE IF sl.size # size
                    THEN [Event_post(c, "Size", "CHANGED", sl.action,
                                     "size was changed")
                            EXCEPT !.s.sizelist[si].size = size]
                    ELSE Event_post(c, "Size", "CHANGEDNOT", sl.action,
                                    "size was not changed"),
                    si + 1)
             ELSE size_walk_on(
                    IF Util_evalQExpression(sl.operator, size, sl.size)
                    THEN Event_post(c, "Size", "FAILED", sl.action,
                                    "size test failed")
                    ELSE Event_post(c, "Size", "SUCCEEDED", sl.action,
                                    "size succeeded"),
                    si + 1)

\* A faulty variant of size_walk: a changed size is reported and not stored.
RECURSIVE size_walk_stale(_, _)
size_walk_stale(c, si) ==
    IF si > Len(c.s.sizelist) THEN c
    ELSE LET sl == c.s.sizelist[si]
             size == c.s.inf.file.st_size
         IN  IF sl.test_changes
             THEN IF ~sl.initialized
                  THEN [c EXCEPT !.s.sizelist[si].initialized = TRUE,
                                 !.s.sizelist[si].size = size]
                  ELSE IF sl.size # size
                  THEN Event_post(c, "Size", "CHANGED", sl.action,
                                  "size was changed")
                  ELSE Event_post(c, "Size", "CHANGEDNOT", sl.action,
                                  "size was not changed")
             ELSE size_walk_stale(
                    IF Util_evalQExpression(sl.operator, size, sl.size)
                    THEN Event_post(c, "Size", "FAILED", sl.action,
                                    "size test failed")
                    ELSE Event_post(c, "Size", "SUCCEEDED", sl.action,
                                    "size succeeded"),
                    si + 1)

RECURSIVE size_walk(_, _)
size_walk(c, si) ==
    IF si > Len(c.s.sizelist) THEN c
    ELSE LET sl == c.s.sizelist[si]
             size == c.s.inf.file.st_size
         IN  IF sl.test_changes
             THEN IF ~sl.initialized
                  THEN [c EXCEPT !.s.sizelist[si].initialized = TRUE,
                                 !.s.sizelist[si].size = size]
                  ELSE IF sl.size # size
                  THEN [Event_post(c, "Size", "CHANGED", sl.action,
                                   "size was changed")
                          EXCEPT !.s.sizelist[si].size = size]
                  ELSE Event_post(c, "Size", "CHANGEDNOT", sl.action,
                                  "size was not changed")
             ELSE size_walk(
                    IF Util_evalQExpression(sl.operator, size, sl.size)
                    THEN Event_post(c, "Size", "FAILED", sl.action,
                                    "size test failed")
                    ELSE Event_post(c, "Size", "SUCCEEDED", sl.action,
                                    "size succeeded"),
                    si + 1)

check_size(c) == size_walk(c, 1)

RECURSIVE uptime_walk(_, _)
uptime_walk(c, ui) ==
    IF ui > Len(c.s.uptimelist) THEN c
    ELSE LET ul == c.s.uptimelist[ui]
         IN  uptime_walk(
               IF Util_evalQExpression(ul.operator, c.s.inf.process.uptime,
                                       ul.uptime)
               THEN Event_post(c, "Uptime", "FAILED", ul.action,
                               "uptime test failed")
               ELSE Event_post(c, "Uptime", "SUCCEEDED", ul.action,
                               "uptime succeeded"),
               ui + 1)

check_uptime(c) == uptime_walk(c, 1)

check_filesystem_flags(c) ==
    IF c.s.inf.filesystem._flags = -1 THEN c
    ELSE IF c.s.inf.filesystem._flags # c.s.inf.filesystem.flags
    THEN Event_post(c, "Fsflag", "CHANGED", c.s.action_FSFLAG,
                    "filesytem flags changed")
    ELSE c

\* A faulty variant of check_filesystem_resources: an inode rule is evaluated
\* on a filesystem that reports no inodes.
check_filesystem_resources_inodes(c, ti) ==
    LET td == c.s.filesystemlist[ti]
        fs == c.s.inf.filesystem
        inode == td.resource = "RESOURCE_ID_INODE"
        hit == IF td.limit_percent >= 0
               THEN Util_evalQExpression(td.operator,
                      IF inode THEN fs.inode_percent ELSE fs.space_percent,
                      td.limit_percent)
               ELSE Util_evalQExpression(td.operator,
                      IF inode THEN fs.inode_total ELSE fs.space_total,
                      td.limit_absolute)
    IN  IF td.limit_percent < 0 /\ td.limit_absolute < 0 THEN c
        ELSE IF td.resource \notin {"RESOURCE_ID_INODE", "RESOURCE_ID_SPACE"}
        THEN c
        ELSE IF hit
        THEN Event_post(c, "Resource", "FAILED", td.action,
                        IF inode THEN "inode usage matches resource limit"
                        ELSE "space usage matches resource limit")
        ELSE Event_post(c, "Resource", "SUCCEEDED", td.action,
                        "filesystem resources succeeded")

check_filesystem_resources(c, ti) ==
    LET td == c.s.filesystemlist[ti]
        fs == c.s.inf.filesystem
        inode == td.resource = "RESOURCE_ID_INODE"
        hit == IF td.limit_percent >= 0
               THEN Util_evalQExpression(td.operator,
                      IF inode THEN fs.inode_percent ELSE fs.space_percent,
                      td.limit_percent)
               ELSE Util_evalQExpression(td.operator,
                      IF inode THEN fs.inode_total ELSE fs.space_total,
                      td.limit_absolute)
    IN  IF td.limit_percent < 0 /\ td.limit_absolute < 0 THEN c
        ELSE IF td.resource \notin {"RESOURCE_ID_INODE", "RESOURCE_ID_SPACE"}
        THEN c
        ELSE IF inode /\ fs.f_files <= 0 THEN c
        ELSE IF hit
        THEN Event_post(c, "Resource", "FAILED", td.action,
                        IF inode THEN "inode usage matches resource limit"
                        ELSE "space usage matches resource limit")
        ELSE Event_post(c, "Resource", "SUCCEEDED", td.action,
                        "filesystem resources succeeded")

RECURSIVE check_filesystems(_, _)
check_filesystems(c, ti) ==
    IF ti > Len(c.s.filesystemlist) THEN c
    ELSE check_filesystems(check_filesystem_resources(c, ti), ti + 1)

(* --------------------------------------------------------- check_match *)
\* A file is [open |-> whether fopen succeeds, data |-> its bytes, a sequence
\* of one-character strings without NUL bytes, seekfail |-> the number of the
\* loop pass whose fseek fails (0: none)].  readpos counts bytes from 0.

Min(a, b) == IF a < b THEN a ELSE b

\* Index of the first "\n" of data at or after index from; 0 when there is none.
NextNewline(data, from) ==
    LET S == {i \in from..Len(data) : data[i] = "\n"}
    IN  IF S = {} THEN 0 ELSE CHOOSE i \in S : \A j \in S : i <= j

\* The zero byte, which ends a C string.
NUL == "\\0"

\* strlen of the buffer fgets filled: the bytes before the first zero byte.
strlen(line) ==
    LET Z == {n \in 1..Len(line) : line[n] = NUL}
    IN  IF Z = {} THEN Len(line)
        ELSE (CHOOSE n \in Z : \A m \in Z : n <= m) - 1

\* A faulty variant of fgets: up to size bytes are read.
fgets_size(data, size, pos) ==
    LET nl == NextNewline(data, pos + 1)
        stop == IF nl = 0 THEN Len(data) ELSE nl
    IN  IF pos >= Len(data) THEN <<>>
        ELSE SubSeq(data, pos + 1, Min(stop, pos + size))

\* fgets(line, size, file) at offset pos: at most size-1 bytes, up to and
\* including the first newline; <<>> stands for a NULL return (end of file).
fgets(data, size, pos) ==
    LET nl == NextNewline(data, pos + 1)
        stop == IF nl = 0 THEN Len(data) ELSE nl
    IN  IF pos >= Len(data) THEN <<>>
        ELSE SubSeq(data, pos + 1, Min(stop, pos + size - 1))

\* strstr(line, match_string) != NULL
strstr(line, str) ==
    \E i \in 1..(Len(line) - Len(str) + 1) :
        SubSeq(line, i, i + Len(str) - 1) = str

\* check_pattern(pattern, line) == 0
check_pattern(ml, line) == strstr(line, ml.match_string)

\* (check_pattern(ml, line) == 0) ^ (ml->not)
PatternHit(ml, line) == check_pattern(ml, line) # ml.not

\* Str_startsWith(s->path, "/proc")
ProcPaths == {"/proc/loadavg", "/procfs.log"}
Str_startsWith_proc(path) == path \in ProcPaths

\* Whether some entry of the ignore list hits the line.
Ignored(s, line) ==
    \E i \in 1..Len(s.matchignorelist) : PatternHit(s.matchignorelist[i], line)

\* The log of one match descriptor after a hit on line (lines 1206-1212).
LogAppend(log, line) ==
    LET buf == IF log = NULL THEN <<>> ELSE log[1]
        one == buf \o line \o <<"\n">>
    IN  IF Len(buf) < MATCH_LINE_LENGTH
        THEN IF Len(one) >= MATCH_LINE_LENGTH
             THEN <<one \o <<".", ".", ".", "\n">> >>
             ELSE <<one>>
        ELSE <<buf>>

\* The logs after the match list has seen line.
LogsAfter(s, logs, line) ==
    [i \in 1..Len(s.matchlist) |->
        IF PatternHit(s.matchlist[i], line) THEN LogAppend(logs[i], line)
        ELSE logs[i]]

\* A faulty variant of match_loop that takes a last line without newline for
\* a line: it is handed to the patterns and readpos moves past it.
RECURSIVE match_loop_partial(_, _, _, _)
match_loop_partial(c, f, logs, pass) ==
    LET readpos == c.s.inf.file.readpos
        line0 == fgets(f.data, MATCH_LINE_LENGTH, readpos)
        length0 == strlen(line0)
        full == length0 > 0 /\ line0[length0] # "\n"
        short == full /\ length0 < MATCH_LINE_LENGTH - 1
        nl == NextNewline(f.data, readpos + length0 + 1)
        length == IF short THEN length0 ELSE IF full THEN nl - readpos ELSE length0
        line == IF full THEN SubSeq(line0, 1, length0)
                ELSE SubSeq(line0, 1, length0 - 1)
        c1 == Called([c EXCEPT !.s.inf.file.readpos = readpos + length],
                     "line", line, readpos)
    IN  IF f.seekfail = pass
        THEN [c |-> Called(c, "fseek", readpos, -1), logs |-> logs]
        ELSE IF line0 = <<>> \/ length0 = 0 THEN [c |-> c, logs |-> logs]
        ELSE IF full /\ ~short /\ nl = 0 THEN [c |-> c, logs |-> logs]
        ELSE IF Ignored(c.s, line) THEN match_loop_partial(c1, f, logs, pass + 1)
        ELSE match_loop_partial(c1, f, LogsAfter(c.s, logs, line), pass + 1)

\* A faulty variant of match_loop: the ignore list is evaluated after the
\* match list, when the line is in the logs already.
RECURSIVE match_loop_ignore_last(_, _, _, _)
match_loop_ignore_last(c, f, logs, pass) ==
    LET readpos == c.s.inf.file.readpos
        line0 == fgets(f.data, MATCH_LINE_LENGTH, readpos)
        length0 == strlen(line0)
        full == length0 > 0 /\ line0[length0] # "\n"
        nl == NextNewline(f.data, readpos + length0 + 1)
        length == IF full THEN nl - readpos ELSE length0
        line == IF full THEN line0 ELSE SubSeq(line0, 1, length0 - 1)
        c1 == Called([c EXCEPT !.s.inf.file.readpos = readpos + length],
                     "line", line, readpos)
    IN  IF f.seekfail = pass
        THEN [c |-> Called(c, "fseek", readpos, -1), logs |-> logs]
        ELSE IF line0 = <<>> \/ length0 = 0 THEN [c |-> c, logs |-> logs]
        ELSE IF full /\ length0 < MATCH_LINE_LENGTH - 1
        THEN [c |-> c, logs |-> logs]
        ELSE IF full /\ nl = 0 THEN [c |-> c, logs |-> logs]
        ELSE match_loop_ignore_last(c1, f, LogsAfter(c.s, logs, line), pass + 1)

\* The while (TRUE) loop from its pass number pass on, up to the label final.
\* Returns the context and the logs.  A record "line" is kept of every line
\* handed to the pattern lists, a record "fseek" of an fseek that fails.
RECURSIVE match_loop(_, _, _, _)
match_loop(c, f, logs, pass) ==
    LET readpos == c.s.inf.file.readpos
        line0 == fgets(f.data, MATCH_LINE_LENGTH, readpos)
        length0 == strlen(line0)
        full == length0 > 0 /\ line0[length0] # "\n"
        nl == NextNewline(f.data, readpos + length0 + 1)
        length == IF full THEN nl - readpos ELSE length0
        line == IF full THEN line0 ELSE SubSeq(line0, 1, length0 - 1)
        c1 == Called([c EXCEPT !.s.inf.file.readpos = readpos + length],
                     "line", line, readpos)
    IN  IF f.seekfail = pass
        THEN [c |-> Called(c, "fseek", readpos, -1), logs |-> logs]
        ELSE IF line0 = <<>> \/ length0 = 0 THEN [c |-> c, logs |-> logs]
        ELSE IF full /\ length0 < MATCH_LINE_LENGTH - 1
        THEN [c |-> c, logs |-> logs]
        ELSE IF full /\ nl = 0 THEN [c |-> c, logs |-> logs]
        ELSE IF Ignored(c.s, line) THEN match_loop(c1, f, logs, pass + 1)
        ELSE match_loop(c1, f, LogsAfter(c.s, logs, line), pass + 1)

\* StringBuffer_toString: the bytes as one string.
RECURSIVE Str(_)
Str(bytes) ==
    IF bytes = <<>> THEN ""
    ELSE IF Len(bytes) = 1 THEN bytes[1]
    ELSE Str(SubSeq(bytes, 1, Len(bytes) \div 2))
           \o Str(SubSeq(bytes, Len(bytes) \div 2 + 1, Len(bytes)))

\* The post processing after the label final.
RECURSIVE match_final(_, _, _)
match_final(c, logs, mi) ==
    IF mi > Len(c.s.matchlist) THEN c
    ELSE match_final(
           IF logs[mi] # NULL
           THEN Event_post(c, "Content", "CHANGED", c.s.matchlist[mi].action,
                           "content match:\n" \o Str(logs[mi][1]))
           ELSE Event_post(c, "Content", "CHANGEDNOT", c.s.matchlist[mi].action,
                           "content doesn't match"),
           logs, mi + 1)

\* A faulty variant of ReadposReset: a file that shrank is read on from the
\* old position.
ReadposResetInode(file) == file.st_ino # file.st_ino_prev

\* st_ino != st_ino_prev || readpos > st_size (line 1143)
ReadposReset(file) ==
    file.st_ino # file.st_ino_prev \/ file.readpos > file.st_size

\* A faulty variant of check_match: when there is nothing new to read the
\* function returns without the post processing.
check_match_shortcut(c, f) ==
    LET file == c.s.inf.file
        nologs == [i \in 1..Len(c.s.matchlist) |-> NULL]
        opened == Called(c, "fopen", file.readpos, f.open)
    IN  IF ~f.open THEN opened
        ELSE With(IF Str_startsWith_proc(c.s.path) \/ ReadposReset(file)
                  THEN [opened EXCEPT !.s.inf.file.readpos = 0]
                  ELSE opened, LAMBDA c1 :
             IF ~Str_startsWith_proc(c.s.path)
                /\ c1.s.inf.file.readpos = file.st_size
             THEN Called(c1, "fclose", Len(f.data), 0)
             ELSE With(match_loop(c1, f, nologs, 1), LAMBDA r :
                  match_final(Called(r.c, "fclose", Len(f.data), 0), r.logs, 1)))

\* The record of fopen carries the read position the call was entered with,
\* the record of fclose the size of the file as the reads found it.
check_match(c, f) ==
    LET file == c.s.inf.file
        nologs == [i \in 1..Len(c.s.matchlist) |-> NULL]
        opened == Called(c, "fopen", file.readpos, f.open)
    IN  IF ~f.open THEN opened
        ELSE With(IF Str_startsWith_proc(c.s.path) \/ ReadposReset(file)
                  THEN [opened EXCEPT !.s.inf.file.readpos = 0]
                  ELSE opened, LAMBDA c1 :
             With(IF ~Str_startsWith_proc(c.s.path)
                     /\ c1.s.inf.file.readpos = file.st_size
                  THEN [c |-> c1, logs |-> nologs]
                  ELSE match_loop(c1, f, nologs, 1), LAMBDA r :
             match_final(Called(r.c, "fclose", Len(f.data), 0), r.logs, 1)))

(* --------------------------------------------------- per-kind validators *)

\* update_process_data(s, ptree, ptreesize, pid) on success: the previous pid
\* and ppid move to _pid and _ppid, the sample d fills the rest.
update_process_data(c, pid, d) ==
    [c EXCEPT !.s.inf.process =
        Merge(Merge(@, d), [_pid |-> @.pid, pid |-> pid, _ppid |-> @.ppid])]

\* A faulty variant of clear_timeouts: one clearing event, bound to the first
\* rule's action, however many rules there are.
clear_timeouts_once(c, ai) ==
    IF ai > Len(c.s.actionratelist) THEN c
    ELSE Event_post(c, "Timeout", "SUCCEEDED", c.s.actionratelist[ai].action,
                    "process is running after previous restart timeout")

\* The Timeout clearing events of check_process, one per action-rate rule.
RECURSIVE clear_timeouts(_, _)
clear_timeouts(c, ai) ==
    IF ai > Len(c.s.actionratelist) THEN c
    ELSE clear_timeouts(
           Event_post(c, "Timeout", "SUCCEEDED", c.s.actionratelist[ai].action,
                      "process is running after previous restart timeout"),
           ai + 1)

\* A faulty variant of check_process: a process that is not running is
\* reported and the validator returns true all the same.
check_process_lenient(c0, sys, doprocess, e) ==
    With(Called(c0, "Util_isProcessRunning", 0, e.pid), LAMBDA c :
    IF e.pid = 0
    THEN [c |-> Event_post(c, "Nonexist", "FAILED", c.s.action_NONEXIST,
                           "process is not running"),
          rv |-> TRUE]
    ELSE
      With(Event_post(c, "Nonexist", "SUCCEEDED", c.s.action_NONEXIST,
                      "process is running with pid " \o ToString(e.pid)),
           LAMBDA c1 :
      With(IF IS_EVENT_SET(c1.s.error, "Exec")
           THEN Event_post(c1, "Exec", "SUCCEEDED", c1.s.action_EXEC,
                           "process is running after previous exec error")
           ELSE c1, LAMBDA c2 :
      With(IF IS_EVENT_SET(c2.s.error, "Timeout")
           THEN clear_timeouts(c2, 1) ELSE c2, LAMBDA c3 :
      With(IF ~doprocess THEN c3
           ELSE With(Called(c3, "update_process_data", e.pid, e.data # NULL),
                     LAMBDA c4 :
                IF e.data = NULL THEN c4
                ELSE With(check_process_ppid(check_process_pid(
                            check_process_state(
                              update_process_data(c4, e.pid, e.data[1])))),
                          LAMBDA c6 :
                     With(IF c6.s.uptimelist # <<>> THEN check_uptime(c6)
                          ELSE c6, LAMBDA c7 :
                     check_resources(c7, sys, 1)))), LAMBDA c8 :
      [c |-> check_ports(c8, 1, e.conn), rv |-> TRUE])))))

\* e.pid: Util_isProcessRunning; e.data: NULL when update_process_data fails,
\* else <<sample>>; e.conn[i]: what the attempts on port i find.
check_process(c0, sys, doprocess, e) ==
    With(Called(c0, "Util_isProcessRunning", 0, e.pid), LAMBDA c :
    IF e.pid = 0
    THEN [c |-> Event_post(c, "Nonexist", "FAILED", c.s.action_NONEXIST,
                           "process is not running"),
          rv |-> FALSE]
    ELSE
      With(Event_post(c, "Nonexist", "SUCCEEDED", c.s.action_NONEXIST,
                      "process is running with pid " \o ToString(e.pid)),
           LAMBDA c1 :
      With(IF IS_EVENT_SET(c1.s.error, "Exec")
           THEN Event_post(c1, "Exec", "SUCCEEDED", c1.s.action_EXEC,
                           "process is running after previous exec error")
           ELSE c1, LAMBDA c2 :
      With(IF IS_EVENT_SET(c2.s.error, "Timeout")
           THEN clear_timeouts(c2, 1) ELSE c2, LAMBDA c3 :
      With(IF ~doprocess THEN c3
           ELSE With(Called(c3, "update_process_data", e.pid, e.data # NULL),
                     LAMBDA c4 :
                IF e.data = NULL THEN c4
                ELSE With(check_process_ppid(check_process_pid(
                            check_process_state(
                              update_process_data(c4, e.pid, e.data[1])))),
                          LAMBDA c6 :
                     With(IF c6.s.uptimelist # <<>> THEN check_uptime(c6)
                          ELSE c6, LAMBDA c7 :
                     check_resources(c7, sys, 1)))), LAMBDA c8 :
      [c |-> check_ports(c8, 1, e.conn), rv |-> TRUE])))))

\* filesystem_usage(inf, p) on success: the previous flags move to _flags.
filesystem_usage(c, u) ==
    [c EXCEPT !.s.inf.filesystem =
        Merge(Merge(@, u), [_flags |-> @.flags])]

\* (int)((1000.0 * used) / (float)total) when total > 0, else 0
Permille(used, total) == IF total > 0 THEN (1000 * used) \div total ELSE 0

\* The statistics check_filesystem derives after filesystem_usage.
filesystem_derive(c) ==
    LET fs == c.s.inf.filesystem
    IN  [c EXCEPT !.s.inf.filesystem =
           Merge(@, [inode_percent |-> Permille(fs.f_files - fs.f_filesfree,
                                                fs.f_files),
                     space_percent |-> Permille(fs.f_blocks - fs.f_blocksfree,
                                                fs.f_blocks),
                     inode_total |-> fs.f_files - fs.f_filesfree,
                     space_total |-> fs.f_blocks - fs.f_blocksfreetotal])]

\* s->inf->st_mode, st_uid, st_gid from a stat buffer
store_stat(c, st) ==
    [c EXCEPT !.s.inf.st_mode = st.st_mode, !.s.inf.st_uid = st.st_uid,
              !.s.inf.st_gid = st.st_gid]

\* A faulty variant of check_owner: the uid and gid tests are left out once
\* the permission test has failed.
check_owner_else(c) ==
    With(IF c.s.perm # NULL THEN check_perm(c) ELSE c, LAMBDA c1 :
    IF IS_EVENT_SET(c1.s.error, "Permission") THEN c1
    ELSE With(IF c1.s.uid # NULL THEN check_uid(c1) ELSE c1, LAMBDA c2 :
         IF c2.s.gid # NULL THEN check_gid(c2) ELSE c2))

\* A faulty variant of check_owner: the permission test comes last.
check_owner_perm_last(c) ==
    With(IF c.s.uid # NULL THEN check_uid(c) ELSE c, LAMBDA c1 :
    With(IF c1.s.gid # NULL THEN check_gid(c1) ELSE c1, LAMBDA c2 :
    IF c2.s.perm # NULL THEN check_perm(c2) ELSE c2))

\* The perm, uid and gid tests, each if configured.
check_owner(c) ==
    With(IF c.s.perm # NULL THEN check_perm(c) ELSE c, LAMBDA c1 :
    With(IF c1.s.uid # NULL THEN check_uid(c1) ELSE c1, LAMBDA c2 :
    IF c2.s.gid # NULL THEN check_gid(c2) ELSE c2))

\* e.lstat, e.stat: NULL on failure, else <<stat buffer>>; e.realpath: whether
\* realpath succeeds; e.usage: NULL when filesystem_usage fails, else <<sample>>.
check_filesystem(c, e) ==
    LET nonexist(cc, msg) ==
            [c |-> Event_post(cc, "Nonexist", "FAILED", cc.s.action_NONEXIST, msg),
             rv |-> FALSE]
        islnk == e.lstat[1].st_mode.type = "S_IFLNK"
        st == IF islnk THEN e.stat[1] ELSE e.lstat[1]
    IN  IF e.lstat = NULL THEN nonexist(c, "filesystem doesn't exist")
        ELSE IF islnk /\ ~e.realpath
        THEN nonexist(c, "filesystem symbolic link error")
        ELSE
          With(IF islnk
               THEN Event_post(c, "Nonexist", "SUCCEEDED", c.s.action_NONEXIST,
                               "filesystem symbolic link")
               ELSE c, LAMBDA c1 :
          IF islnk /\ e.stat = NULL
          THEN nonexist(c1, "filesystem doesn't exist")
          ELSE
            With(store_stat(Event_post(c1, "Nonexist", "SUCCEEDED",
                                       c1.s.action_NONEXIST,
                                       "filesystem exists"), st), LAMBDA c2 :
            IF e.usage = NULL
            THEN [c |-> Event_post(c2, "Data", "FAILED", c2.s.action_DATA,
                                   "unable to read filesystem state"),
                  rv |-> FALSE]
            ELSE
              With(Event_post(
                     filesystem_derive(filesystem_usage(c2, e.usage[1])),
                     "Data", "SUCCEEDED", c2.s.action_DATA,
                     "succeeded getting filesystem statistic"), LAMBDA c3 :
              [c |-> check_filesystems(
                       check_filesystem_flags(check_owner(c3)), 1),
               rv |-> TRUE])))

\* MAX(stat_buf.st_mtime, stat_buf.st_ctime)
MAX(a, b) == IF a > b THEN a ELSE b

\* e.stat: NULL when stat fails, else <<stat buffer>>; e.sum: Util_getChecksum;
\* e.time: time(&now); e.file: the file as check_match finds it.
check_file(c, e) ==
    LET st == e.stat[1]
    IN  IF e.stat = NULL
        THEN [c |-> Event_post(c, "Nonexist", "FAILED", c.s.action_NONEXIST,
                               "file doesn't exist"),
              rv |-> FALSE]
        ELSE
          With(Event_post(
                 [store_stat(c, st) EXCEPT
                    !.s.inf.file.st_ino_prev =
                        IF c.s.inf.file.st_ino # 0 THEN c.s.inf.file.st_ino
                        ELSE @,
                    !.s.inf.file.st_ino = st.st_ino,
                    !.s.inf.file.st_size = st.st_size,
                    !.s.inf.timestamp = MAX(st.st_mtime, st.st_ctime)],
                 "Nonexist", "SUCCEEDED", c.s.action_NONEXIST, "file exist"),
               LAMBDA c2 :
          IF c2.s.inf.st_mode.type # "S_IFREG"
          THEN [c |-> Event_post(c2, "Invalid", "FAILED", c.s.action_INVALID,
                                 "is not a regular file"),
                rv |-> FALSE]
          ELSE
            With(Event_post(c2, "Invalid", "SUCCEEDED", c.s.action_INVALID,
                            "is a regular file"), LAMBDA c3 :
            With(IF c3.s.checksum # NULL THEN check_checksum(c3, e.sum)
                 ELSE c3, LAMBDA c4 :
            With(check_owner(c4), LAMBDA c5 :
            With(IF c5.s.sizelist # <<>> THEN check_size(c5) ELSE c5,
                 LAMBDA c6 :
            With(IF c6.s.timestamplist # <<>> THEN check_timestamp(c6, e.time)
                 ELSE c6, LAMBDA c7 :
            [c |-> IF c7.s.matchlist # <<>> THEN check_match(c7, e.file)
                   ELSE c7,
             rv |-> TRUE]))))))

\* check_directory and check_fifo: the same function up to the file type.
check_node(c, e, type, name) ==
    LET st == e.stat[1]
    IN  IF e.stat = NULL
        THEN [c |-> Event_post(c, "Nonexist", "FAILED", c.s.action_NONEXIST,
                               name \o " doesn't exist"),
              rv |-> FALSE]
        ELSE
          With(Event_post(
                 [store_stat(c, st) EXCEPT
                    !.s.inf.timestamp = MAX(st.st_mtime, st.st_ctime)],
                 "Nonexist", "SUCCEEDED", c.s.action_NONEXIST,
                 name \o " exist"), LAMBDA c2 :
          IF c2.s.inf.st_mode.type # type
          THEN [c |-> Event_post(c2, "Invalid", "FAILED", c.s.action_INVALID,
                                 "is not " \o name),
                rv |-> FALSE]
          ELSE
            With(check_owner(Event_post(c2, "Invalid", "SUCCEEDED",
                                        c.s.action_INVALID, "is " \o name)),
                 LAMBDA c4 :
            [c |-> IF c4.s.timestamplist # <<>>
                   THEN check_timestamp(c4, e.time) ELSE c4,
             rv |-> TRUE]))

check_directory(c, e) == check_node(c, e, "S_IFDIR", "directory")

check_fifo(c, e) == check_node(c, e, "S_IFIFO", "fifo")

\* The status rules of check_program from rule si on; n: the bytes read from
\* the child's error or input stream.
RECURSIVE status_walk(_, _, _)
status_walk(c, n, si) ==
    IF si > Len(c.s.statuslist) THEN c
    ELSE LET status == c.s.statuslist[si]
         IN  status_walk(
               IF Util_evalQExpression(status.operator, c.s.program.exitStatus,
                                       status.return_value)
               THEN Event_post(c, "Status", "FAILED", status.action,
                               IF n > 0 THEN "output of the program"
                               ELSE "failed with exit status -- no output from program")
               ELSE Event_post(c, "Status", "SUCCEEDED", status.action,
                               "status succeeded"),
               n, si + 1)

\* A faulty variant of TimedOut: the program is killed once the timeout is reached.
TimedOutAtLimit(execution_time, timeout) == execution_time >= timeout

\* A faulty variant of TimedOut: a program found running is killed at once.
TimedOutAlways(execution_time, timeout) == execution_time >= 0

\* execution_time > s->program->timeout (line 459)
TimedOut(execution_time, timeout) == execution_time > timeout

\* A faulty variant of check_program: the handle of the child that has ended
\* is not released before the program is started again.
check_program_leak(c, t, e) ==
    LET P == c.s.program.P
        running == e.exit < 0
        timedout == TimedOut(t - c.s.program.started, c.s.program.timeout)
        asked == IF P # NULL
                 THEN Called(c, "Process_exitStatus", t - c.s.program.started,
                             e.exit)
                 ELSE c
        killed == IF running
                  THEN Called(Called(asked, "Process_kill", P, 0),
                              "Process_waitFor", P, 0)
                  ELSE asked
        exited == [killed EXCEPT !.s.program.exitStatus =
                                    IF running THEN e.killed ELSE e.exit]
    IN  IF P # NULL /\ running /\ ~timedout
        THEN [c |-> asked, rv |-> TRUE]
        ELSE
          With(IF P # NULL THEN status_walk(exited, e.out, 1) ELSE c,
               LAMBDA c4 :
          With(Called(c4, "Command_execute", 0, e.exec), LAMBDA c5 :
          [c |-> IF ~e.exec
                 THEN Event_post([c5 EXCEPT !.s.program.P = NULL],
                                 "Status", "FAILED", c5.s.action_EXEC,
                                 "failed to execute")
                 ELSE [Event_post([c5 EXCEPT !.s.program.P = <<"Process_T">>],
                                  "Status", "SUCCEEDED", c5.s.action_EXEC,
                                  "program started")
                         EXCEPT !.s.program.started = t],
           rv |-> TRUE]))

\* A faulty variant of check_program: a failed spawn counts as a start.
check_program_restarted(c, t, e) ==
    LET P == c.s.program.P
        running == e.exit < 0
        timedout == TimedOut(t - c.s.program.started, c.s.program.timeout)
        asked == IF P # NULL
                 THEN Called(c, "Process_exitStatus", t - c.s.program.started,
                             e.exit)
                 ELSE c
        killed == IF running
                  THEN Called(Called(asked, "Process_kill", P, 0),
                              "Process_waitFor", P, 0)
                  ELSE asked
        exited == [killed EXCEPT !.s.program.exitStatus =
                                    IF running THEN e.killed ELSE e.exit]
    IN  IF P # NULL /\ running /\ ~timedout
        THEN [c |-> asked, rv |-> TRUE]
        ELSE
          With(IF P # NULL
               THEN Called([status_walk(exited, e.out, 1)
                              EXCEPT !.s.program.P = NULL],
                           "Process_free", P, 0)
               ELSE c, LAMBDA c4 :
          With(Called(c4, "Command_execute", 0, e.exec), LAMBDA c5 :
          [c |-> IF ~e.exec
                 THEN [Event_post(c5, "Status", "FAILED", c5.s.action_EXEC,
                                  "failed to execute")
                         EXCEPT !.s.program.started = t]
                 ELSE [Event_post([c5 EXCEPT !.s.program.P = <<"Process_T">>],
                                  "Status", "SUCCEEDED", c5.s.action_EXEC,
                                  "program started")
                         EXCEPT !.s.program.started = t],
           rv |-> TRUE]))

\* t: Time_now(); e.exit: Process_exitStatus(P) on entry (negative: running);
\* e.killed: the exit status once killed and waited for; e.out: the bytes the
\* program wrote; e.exec: whether Command_execute succeeds.  The record of
\* Process_exitStatus carries the execution time now - started of the call.
check_program(c, t, e) ==
    LET P == c.s.program.P
        running == e.exit < 0
        timedout == TimedOut(t - c.s.program.started, c.s.program.timeout)
        asked == IF P # NULL
                 THEN Called(c, "Process_exitStatus", t - c.s.program.started,
                             e.exit)
                 ELSE c
        killed == IF running
                  THEN Called(Called(asked, "Process_kill", P, 0),
                              "Process_waitFor", P, 0)
                  ELSE asked
        exited == [killed EXCEPT !.s.program.exitStatus =
                                    IF running THEN e.killed ELSE e.exit]
    IN  IF P # NULL /\ running /\ ~timedout
        THEN [c |-> asked, rv |-> TRUE]
        ELSE
          With(IF P # NULL
               THEN Called([status_walk(exited, e.out, 1)
                              EXCEPT !.s.program.P = NULL],
                           "Process_free", P, 0)
               ELSE c, LAMBDA c4 :
          With(Called(c4, "Command_execute", 0, e.exec), LAMBDA c5 :
          [c |-> IF ~e.exec
                 THEN Event_post(c5, "Status", "FAILED", c5.s.action_EXEC,
                                 "failed to execute")
                 ELSE [Event_post([c5 EXCEPT !.s.program.P = <<"Process_T">>],
                                  "Status", "SUCCEEDED", c5.s.action_EXEC,
                                  "program started")
                         EXCEPT !.s.program.started = t],
           rv |-> TRUE]))

ICMP_ECHO == "ICMP_ECHO"

\* A faulty variant of icmp_walk: a rule of unknown type is passed over.
RECURSIVE icmp_walk_on(_, _, _, _)
icmp_walk_on(c, resp, ii, last) ==
    IF ii > Len(c.s.icmplist) THEN [c |-> c, last |-> last, fatal |-> FALSE]
    ELSE LET icmp == c.s.icmplist[ii]
             r == resp[ii]
         IN  IF icmp.type # ICMP_ECHO
             THEN icmp_walk_on(c, resp, ii + 1, last)
             ELSE
               With([Called(c, "icmp_echo", ii, r) EXCEPT
                       !.s.icmplist[ii].response = r,
                       !.s.icmplist[ii].is_available = (r # -1)], LAMBDA c1 :
               icmp_walk_on(IF r = -2 THEN c1
                            ELSE IF r = -1
                            THEN Event_post(c1, "Icmp", "FAILED", icmp.action,
                                            "failed ICMP test")
                            ELSE Event_post(c1, "Icmp", "SUCCEEDED", icmp.action,
                                            "succeeded ICMP test"),
                            resp, ii + 1, ii))

\* The icmp list of check_remote_host from rule ii on.  last: the index of
\* last_ping (0: NULL).  Returns the context, last, and fatal: whether a rule
\* of unknown type ended the validator.
RECURSIVE icmp_walk(_, _, _, _)
icmp_walk(c, resp, ii, last) ==
    IF ii > Len(c.s.icmplist) THEN [c |-> c, last |-> last, fatal |-> FALSE]
    ELSE LET icmp == c.s.icmplist[ii]
             r == resp[ii]
         IN  IF icmp.type # ICMP_ECHO
             THEN [c |-> c, last |-> last, fatal |-> TRUE]
             ELSE
               With([Called(c, "icmp_echo", ii, r) EXCEPT
                       !.s.icmplist[ii].response = r,
                       !.s.icmplist[ii].is_available = (r # -1)], LAMBDA c1 :
               icmp_walk(IF r = -2 THEN c1
                         ELSE IF r = -1
                         THEN Event_post(c1, "Icmp", "FAILED", icmp.action,
                                         "failed ICMP test")
                         ELSE Event_post(c1, "Icmp", "SUCCEEDED", icmp.action,
                                         "succeeded ICMP test"),
                         resp, ii + 1, ii))

\* A faulty variant of PingDown: any unavailable rule counts, not the last.
PingDownAny(s, last) ==
    last # 0 /\ \E i \in 1..Len(s.icmplist) :
                    s.icmplist[i].type = ICMP_ECHO /\ ~s.icmplist[i].is_available

\* last_ping && !last_ping->is_available (line 553)
PingDown(s, last) == last # 0 /\ ~s.icmplist[last].is_available

\* e.icmp[i]: what icmp_echo returns for rule i; e.conn as for check_process.
check_remote_host(c, e) ==
    With(icmp_walk(c, e.icmp, 1, 0), LAMBDA w :
    IF w.fatal THEN [c |-> w.c, rv |-> FALSE]
    ELSE IF PingDown(w.c.s, w.last) THEN [c |-> w.c, rv |-> FALSE]
    ELSE [c |-> check_ports(w.c, 1, e.conn), rv |-> TRUE])

\* A faulty variant of check_system: it returns FALSE.
check_system_false(c, sys) == [c |-> check_resources(c, sys, 1), rv |-> FALSE]

check_system(c, sys) == [c |-> check_resources(c, sys, 1), rv |-> TRUE]

\* s->check(s)
check(c, sys, run, t, e) ==
    CASE c.s.type = "TYPE_PROCESS"    -> check_process(c, sys, run.doprocess, e)
      [] c.s.type = "TYPE_FILESYSTEM" -> check_filesystem(c, e)
      [] c.s.type = "TYPE_FILE"       -> check_file(c, e)
      [] c.s.type = "TYPE_DIRECTORY"  -> check_directory(c, e)
      [] c.s.type = "TYPE_FIFO"       -> check_fifo(c, e)
      [] c.s.type = "TYPE_PROGRAM"    -> check_program(c, t, e)
      [] c.s.type = "TYPE_HOST"       -> check_remote_host(c, e)
      [] c.s.type = "TYPE_SYSTEM"     -> check_system(c, sys)

(* ------------------------------------------------- scheduler decisions *)

\* A faulty variant of timeout_walk: the last cycle of a rule's window does
\* not count.
RECURSIVE timeout_walk_strict(_, _)
timeout_walk_strict(c, ai) ==
    IF ai > Len(c.s.actionratelist) THEN c
    ELSE LET ar == c.s.actionratelist[ai]
         IN  timeout_walk_strict(
               IF c.s.nstart >= ar.count /\ c.s.ncycle < ar.cycle
               THEN Event_post(c, "Timeout", "FAILED", ar.action,
                               "service restarted within cycles")
               ELSE c,
               ai + 1)

\* The rules of check_timeout from rule ai on: a Timeout event for each rule
\* whose count is reached within its cycles.
RECURSIVE timeout_walk(_, _)
timeout_walk(c, ai) ==
    IF ai > Len(c.s.actionratelist) THEN c
    ELSE LET ar == c.s.actionratelist[ai]
         IN  timeout_walk(
               IF c.s.nstart >= ar.count /\ c.s.ncycle <= ar.cycle
               THEN Event_post(c, "Timeout", "FAILED", ar.action,
                               "service restarted within cycles")
               ELSE c,
               ai + 1)

\* max over the rules' cycle (0 for no rule)
RECURSIVE MaxCycle(_)
MaxCycle(arl) ==
    IF arl = <<>> THEN 0
    ELSE LET m == MaxCycle(Tail(arl))
         IN  IF m < arl[1].cycle THEN arl[1].cycle ELSE m

\* A faulty variant of check_timeout that counts the cycle whether or not a
\* start has been recorded.
check_timeout_count_always(c) ==
    IF c.s.actionratelist = <<>> THEN c
    ELSE With(timeout_walk([c EXCEPT !.s.ncycle = @ + 1], 1),
              LAMBDA c2 :
         IF c2.s.ncycle > MaxCycle(c2.s.actionratelist)
         THEN [c2 EXCEPT !.s.ncycle = 0, !.s.nstart = 0]
         ELSE c2)

\* A faulty variant of check_timeout: the reset leaves nstart as it is.
check_timeout_keep_nstart(c) ==
    IF c.s.actionratelist = <<>> THEN c
    ELSE With(timeout_walk(IF c.s.nstart > 0
                           THEN [c EXCEPT !.s.ncycle = @ + 1] ELSE c, 1),
              LAMBDA c2 :
         IF c2.s.ncycle > MaxCycle(c2.s.actionratelist)
         THEN [c2 EXCEPT !.s.ncycle = 0]
         ELSE c2)

check_timeout(c) ==
    IF c.s.actionratelist = <<>> THEN c
    ELSE With(timeout_walk(IF c.s.nstart > 0
                           THEN [c EXCEPT !.s.ncycle = @ + 1] ELSE c, 1),
              LAMBDA c2 :
         IF c2.s.ncycle > MaxCycle(c2.s.actionratelist)
         THEN [c2 EXCEPT !.s.ncycle = 0, !.s.nstart = 0]
         ELSE c2)

\* A faulty variant of SkipCycle: the cycle that reaches the number is skipped too.
SkipCycleInclusive(counter, number) == counter <= number

\* s->every.spec.cycle.counter < s->every.spec.cycle.number (line 1347)
SkipCycle(counter, number) == counter < number

\* A faulty variant of CronSkips: EVERY_NOTINCRON is treated as EVERY_CRON.
CronSkipsAlike(type, incron) ==
    type \in {"EVERY_CRON", "EVERY_NOTINCRON"} /\ ~incron

\* The two cron conditions of check_skip (lines 1353 and 1357).
CronSkips(type, incron) ==
    \/ type = "EVERY_CRON" /\ ~incron
    \/ type = "EVERY_NOTINCRON" /\ incron

\* incron: Time_incron(s->every.spec.cron, time)
check_skip(c, incron) ==
    LET waiting == [c EXCEPT !.s.monitor = @ \cup MONITOR_WAITING]
        counted == [c EXCEPT !.s.every.counter = @ + 1]
    IN  IF c.s.visited THEN [c |-> c, rv |-> TRUE]
        ELSE IF c.s.every.type = "EVERY_SKIPCYCLES"
        THEN IF SkipCycle(counted.s.every.counter, c.s.every.number)
             THEN [c |-> [counted EXCEPT !.s.monitor = @ \cup MONITOR_WAITING],
                   rv |-> TRUE]
             ELSE [c |-> [counted EXCEPT !.s.every.counter = 0,
                                         !.s.monitor = @ \ MONITOR_WAITING],
                   rv |-> FALSE]
        ELSE IF CronSkips(c.s.every.type, incron)
        THEN [c |-> waiting, rv |-> TRUE]
        ELSE [c |-> [c EXCEPT !.s.monitor = @ \ MONITOR_WAITING], rv |-> FALSE]

\* control_service(name, action): ctl.rv is its return value; when it succeeds
\* the service's monitoring state follows the action, and ctl.visited tells
\* whether the dependency walk left the service marked visited.
control_service(c, action, ctl) ==
    IF ~ctl.rv THEN c
    ELSE [c EXCEPT
            !.s.visited = @ \/ ctl.visited,
            !.s.monitor =
               IF action \in {"ACTION_STOP", "ACTION_UNMONITOR"} THEN MONITOR_NOT
               ELSE IF @ = MONITOR_NOT THEN MONITOR_INIT ELSE @]

\* A faulty variant of do_scheduled_action: the event is posted only when
\* control_service succeeded.
do_scheduled_action_on_success(c, ctl) ==
    IF c.s.doaction # "ACTION_IGNORE"
    THEN With(Called(control_service(c, c.s.doaction, ctl),
                     "control_service", c.s.doaction, ctl.rv), LAMBDA c1 :
         [c |-> [(IF ctl.rv
                  THEN Event_post(c1, "Action", "CHANGED", c1.s.action_ACTION,
                                  c.s.doaction \o " action done")
                  ELSE c1)
                   EXCEPT !.s.doaction = "ACTION_IGNORE", !.s.token = NULL],
          rv |-> ctl.rv])
    ELSE [c |-> c, rv |-> FALSE]

do_scheduled_action(c, ctl) ==
    IF c.s.doaction # "ACTION_IGNORE"
    THEN With(Called(control_service(c, c.s.doaction, ctl),
                     "control_service", c.s.doaction, ctl.rv), LAMBDA c1 :
         [c |-> [Event_post(c1, "Action", "CHANGED", c1.s.action_ACTION,
                            c.s.doaction \o " action done")
                   EXCEPT !.s.doaction = "ACTION_IGNORE", !.s.token = NULL],
          rv |-> ctl.rv])
    ELSE [c |-> c, rv |-> FALSE]

(* ------------------------------------------------------- cycle driver *)

\* A faulty variant of Failed: the failed validator is not counted.
FailedUncounted(rv) == 0

\* if (! s->check(s)) errors++: what one validator adds to errors.
Failed(rv) == IF rv THEN 0 ELSE 1

\* A faulty variant of MonitorAfter: monitoring is switched on in every case.
MonitorAfterAlways(monitor) == MONITOR_YES

\* if (s->monitor != MONITOR_NOT) s->monitor = MONITOR_YES (lines 166-167)
MonitorAfter(monitor) ==
    IF monitor # MONITOR_NOT THEN MONITOR_YES ELSE monitor

\* The body of the main loop of validate() for service s (lines 159-170).
\* x.ctl, x.incron, x.env: what control_service, Time_incron and the
\* validator's probes answer.
validate_service(c0, sys, run, t, x) ==
    With(do_scheduled_action(c0, x.ctl), LAMBDA a :
    With(Called(a.c, "do_scheduled_action", 0, a.rv), LAMBDA a1 :
    IF a.rv \/ a1.s.monitor = MONITOR_NOT THEN [c |-> a1, err |-> 0]
    ELSE
      With(check_skip(a1, x.incron), LAMBDA k :
      With(Called(k.c, "check_skip", x.incron, k.rv), LAMBDA k1 :
      IF k.rv THEN [c |-> k1, err |-> 0]
      ELSE
        With(Called(check_timeout(k1), "check_timeout",
                    [nstart |-> k1.s.nstart, ncycle |-> k1.s.ncycle], 0), LAMBDA m :
        IF m.s.monitor = MONITOR_NOT
        THEN [c |-> [m EXCEPT !.s.collected = t], err |-> 0]
        ELSE
          With(check(m, sys, run, t, x.env), LAMBDA v :
          With(Called(v.c, "check", 0, v.rv), LAMBDA v1 :
          [c |-> [v1 EXCEPT !.s.monitor = MonitorAfter(@),
                            !.s.collected = t],
           err |-> Failed(v.rv)])))))))

\* A faulty variant of drain: the quick loop ends at the first action done.
RECURSIVE drain_until_done(_, _, _, _, _)
drain_until_done(list, ctls, i, ev, cl) ==
    IF i > Len(list) THEN [list |-> list, ev |-> ev, calls |-> cl]
    ELSE With(do_scheduled_action([s |-> list[i], ev |-> ev, calls |-> cl],
                                  ctls[i]), LAMBDA a :
         With(Called(a.c, "drain", 0, a.rv), LAMBDA a1 :
         IF a.rv THEN [list |-> [list EXCEPT ![i] = a1.s], ev |-> a1.ev,
                       calls |-> a1.calls]
         ELSE drain_until_done([list EXCEPT ![i] = a1.s], ctls, i + 1,
                               a1.ev, a1.calls)))

\* The quick loop of validate() over the services from i on (lines 152-153).
RECURSIVE drain(_, _, _, _, _)
drain(list, ctls, i, ev, cl) ==
    IF i > Len(list) THEN [list |-> list, ev |-> ev, calls |-> cl]
    ELSE With(do_scheduled_action([s |-> list[i], ev |-> ev, calls |-> cl],
                                  ctls[i]), LAMBDA a :
         With(Called(a.c, "drain", 0, a.rv), LAMBDA a1 :
         drain([list EXCEPT ![i] = a1.s], ctls, i + 1, a1.ev, a1.calls)))

\* reset_depend(): clears the visit mark of every service
reset_depend(list) == [i \in 1..Len(list) |-> [list[i] EXCEPT !.visited = FALSE]]

(* ------------------------------------------------------- probe answers *)

AttemptOutcomes ==
    {[socket |-> FALSE, ready |-> TRUE, check |-> TRUE, dt |-> 0],
     [socket |-> TRUE, ready |-> FALSE, check |-> TRUE, dt |-> 0],
     [socket |-> TRUE, ready |-> TRUE, check |-> FALSE, dt |-> 0]}
    \cup {[socket |-> TRUE, ready |-> TRUE, check |-> TRUE, dt |-> d] :
            d \in 0..MaxDelay}

\* What the attempts on each port of the list may find: one outcome for each
\* attempt the port's retry allows.
RECURSIVE ConnChoices(_)
ConnChoices(ports) ==
    IF ports = <<>> THEN {<<>>}
    ELSE {<<a>> \o rest :
            a \in [1..MAX(1, ports[1].retry) -> AttemptOutcomes],
            rest \in ConnChoices(Tail(ports))}

\* What icmp_echo may return for each rule of the list.
RECURSIVE IcmpChoices(_)
IcmpChoices(icmps) ==
    IF icmps = <<>> THEN {<<>>}
    ELSE {<<r>> \o rest : r \in {-2, -1, 0}, rest \in IcmpChoices(Tail(icmps))}

ControlOutcomes == [rv : BOOLEAN, visited : BOOLEAN]

NoControl == [rv |-> FALSE, visited |-> FALSE]

\* The stat buffers the probes may return for a path.
StatBuf(type, perm, uid, size, ino, mtime) ==
    [st_mode |-> [type |-> type, perm |-> perm], st_uid |-> uid, st_gid |-> uid,
     st_size |-> size, st_ino |-> ino, st_mtime |-> mtime, st_ctime |-> 0]

\* The process samples update_process_data may deliver.
ProcSamples ==
    {[ppid |-> 1, status_flag |-> {}, uptime |-> 100, cpu_percent |-> 50,
      total_cpu_percent |-> 50, mem_percent |-> 100, mem_kbyte |-> 1000,
      total_mem_kbyte |-> 1000, total_mem_percent |-> 100, children |-> 0],
     [ppid |-> 2, status_flag |-> {PROCESS_ZOMBIE}, uptime |-> 0,
      cpu_percent |-> -1, total_cpu_percent |-> 950, mem_percent |-> 900,
      mem_kbyte |-> 9000, total_mem_kbyte |-> 9000, total_mem_percent |-> 900,
      children |-> 5]}

NoProcess ==
    [pid |-> -1, _pid |-> -1, ppid |-> -1, _ppid |-> -1, status_flag |-> {},
     uptime |-> 0, cpu_percent |-> 0, total_cpu_percent |-> 0,
     mem_percent |-> 0, mem_kbyte |-> 0, total_mem_kbyte |-> 0,
     total_mem_percent |-> 0, children |-> 0]

\* The samples filesystem_usage may deliver.
FsSamples ==
    {[f_blocks |-> 100, f_blocksfree |-> 50, f_blocksfreetotal |-> 60,
      f_files |-> 10, f_filesfree |-> 1, flags |-> 1],
     [f_blocks |-> 100, f_blocksfree |-> 5, f_blocksfreetotal |-> 5,
      f_files |-> 0, f_filesfree |-> 0, flags |-> 2]}

NoFilesystem ==
    [f_blocks |-> 0, f_blocksfree |-> 0, f_blocksfreetotal |-> 0, f_files |-> 0,
     f_filesfree |-> 0, flags |-> -1, _flags |-> -1, inode_percent |-> 0,
     space_percent |-> 0, inode_total |-> 0, space_total |-> 0]

NoFile ==
    [st_size |-> 0, st_ino |-> 0, st_ino_prev |-> 0, cs_sum |-> <<"", "">>,
     readpos |-> 0]

\* The system-wide samples update_system_load may deliver.
SysSamples ==
    {[loadavg |-> <<5, 5, 5>>, total_mem_percent |-> 100,
      total_mem_kbyte |-> 1000, total_swap_percent |-> 0, total_swap_kbyte |-> 0,
      total_cpu_user_percent |-> 50, total_cpu_syst_percent |-> 50,
      total_cpu_wait_percent |-> 0],
     [loadavg |-> <<90, 50, 20>>, total_mem_percent |-> 900,
      total_mem_kbyte |-> 9000, total_swap_percent |-> 500,
      total_swap_kbyte |-> 5000, total_cpu_user_percent |-> 900,
      total_cpu_syst_percent |-> -1, total_cpu_wait_percent |-> 100]}

NoSystem == CHOOSE y \in SysSamples : y.total_swap_kbyte = 0

(* ---------------------------------------------------------- the services *)

\* A service as the configuration leaves it, before its first cycle.
DefaultService ==
    [name |-> 0, type |-> "TYPE_SYSTEM", path |-> "/", monitor |-> MONITOR_INIT,
     visited |-> FALSE,
     every |-> [type |-> "EVERY_CYCLE", number |-> 0, counter |-> 0],
     doaction |-> "ACTION_IGNORE", token |-> NULL, error |-> {},
     nstart |-> 0, ncycle |-> 0, actionratelist |-> <<>>, portlist |-> <<>>,
     icmplist |-> <<>>, resourcelist |-> <<>>, sizelist |-> <<>>,
     timestamplist |-> <<>>, uptimelist |-> <<>>, matchlist |-> <<>>,
     matchignorelist |-> <<>>, statuslist |-> <<>>, filesystemlist |-> <<>>,
     perm |-> NULL, uid |-> NULL, gid |-> NULL, checksum |-> NULL,
     inf |-> [st_mode |-> [type |-> "", perm |-> 0], st_uid |-> 0, st_gid |-> 0,
              timestamp |-> 0, file |-> NoFile, filesystem |-> NoFilesystem,
              process |-> NoProcess],
     program |-> [P |-> NULL, started |-> 0, timeout |-> 0, exitStatus |-> 0],
     collected |-> 0,
     action_NONEXIST |-> "ACTION_ALERT", action_INVALID |-> "ACTION_ALERT",
     action_DATA |-> "ACTION_ALERT", action_EXEC |-> "ACTION_ALERT",
     action_PID |-> "ACTION_ALERT", action_PPID |-> "ACTION_ALERT",
     action_FSFLAG |-> "ACTION_ALERT", action_ACTION |-> "ACTION_ALERT"]

Service(type, o) == Merge(DefaultService, [type |-> type] @@ o)

\* The list with each service named by its place in it.
Named(list) == [i \in 1..Len(list) |-> [list[i] EXCEPT !.name = i]]

Port(port, retry, type, protocol) ==
    [port |-> port, retry |-> retry, type |-> type, protocol |-> protocol,
     action |-> "ACTION_ALERT", response |-> 0, is_available |-> FALSE]

Icmp(type) ==
    [type |-> type, timeout |-> 5, count |-> 3, action |-> "ACTION_ALERT",
     response |-> 0, is_available |-> FALSE]

ActionRate(count, cyc, action) ==
    [count |-> count, cycle |-> cyc, action |-> action]

(* ------------------------------------------- what the probes may answer *)

OneOrNull(S) == {NULL} \cup {<<y>> : y \in S}

Pids == {0, 42, 43}

ProcessEnvs(s, run) ==
    {[pid |-> 0]} \cup
    {[pid |-> p, data |-> d, conn |-> cc] :
        p \in Pids \ {0},
        d \in IF run.doprocess THEN OneOrNull(ProcSamples) ELSE {NULL},
        cc \in ConnChoices(s.portlist)}

\* The stat buffers for a path of the given type: the permission and owner
\* vary when the service tests them.
Stats(s, type, size, ino, mtime) ==
    {StatBuf(type, perm, uid, size, ino, mtime) :
        perm \in IF s.perm # NULL THEN {420, 384} ELSE {420},
        uid \in IF s.uid # NULL \/ s.gid # NULL THEN {0, 1000} ELSE {0}}

FilesystemEnvs(s) ==
    {[lstat |-> NULL], [lstat |-> <<StatBuf("S_IFLNK", 511, 0, 0, 1, 0)>>,
                        realpath |-> FALSE],
     [lstat |-> <<StatBuf("S_IFLNK", 511, 0, 0, 1, 0)>>, realpath |-> TRUE,
      stat |-> NULL]} \cup
    {[lstat |-> <<l>>, realpath |-> TRUE, stat |-> <<st>>, usage |-> u] :
        l \in {StatBuf("S_IFLNK", 511, 0, 0, 1, 0), StatBuf("S_IFBLK", 420, 0, 0, 1, 0)},
        st \in Stats(s, "S_IFBLK", 0, 2, 0),
        u \in OneOrNull(FsSamples)}

\* A file as the probes find it: the stat buffer fields that vary, the digest
\* and the bytes.
FileStates ==
    {[size |-> 0, ino |-> 1, mtime |-> 1, sum |-> <<"a", "a">>, data |-> <<>>],
     [size |-> 4, ino |-> 1, mtime |-> 2, sum |-> <<"b", "a">>,
      data |-> <<"f", "o", "o", "\n">>],
     [size |-> 7, ino |-> 1, mtime |-> 3, sum |-> <<"b", "b">>,
      data |-> <<"f", "o", "o", "\n", "b", "a", "r">>],
     [size |-> 4, ino |-> 2, mtime |-> 4, sum |-> <<"c", "c">>,
      data |-> <<"b", "a", "r", "\n">>]}

\* The file of one line of size bytes, newline included: "oo" at its head, a
\* "z" as byte 551 if it is that long, else as its last byte before the newline.
LongLine(size) ==
    [n \in 1..size |->
        IF n <= 2 THEN "o"
        ELSE IF n = size THEN "\n"
        ELSE IF n = Min(551, size - 1) THEN "z"
        ELSE "x"]

\* The path of the file that holds one line of 510, 511 or 599 bytes and a
\* newline.
LongPath == "/var/log/long"

\* The path of a log file that is only appended to, and the contents the
\* probes may find there: a line and the head of a second one, the two lines
\* complete with a third, the three with a line that holds a zero byte and a
\* fifth line, and a line of 510 or 511 bytes followed by a short one.
LinesPath == "/var/log/lines"
LineFiles ==
    {<<"o", "o", "\n", "b", "a">>,
     <<"o", "o", "\n", "b", "a", "z", "\n", "q", "o", "o", "\n">>,
     <<"o", "o", "\n", "b", "a", "z", "\n", "q", "o", "o", "\n",
       "z", NUL, "o", "\n", "o", "o", "\n">>,
     LongLine(511) \o <<"o", "o", "\n">>,
     LongLine(512) \o <<"o", "o", "\n">>}

\* The answers to check_file when stat finds the regular file f; the reads of
\* check_match find the file g, which another process may have put there
\* since the stat.
RegularEnvs(s, t, f) ==
    {[stat |-> <<st>>, sum |-> sum, time |-> tm,
      file |-> [open |-> op, data |-> g.data, seekfail |-> 0]] :
        st \in Stats(s, "S_IFREG", f.size, f.ino, f.mtime),
        sum \in IF s.checksum # NULL THEN {NULL, <<f.sum>>} ELSE {NULL},
        tm \in IF s.timestamplist # <<>> THEN {-1, t} ELSE {t},
        op \in IF s.matchlist # <<>> THEN BOOLEAN ELSE {TRUE},
        g \in IF s.matchlist # <<>> THEN FileStates ELSE {f}}

FileEnvs(s, t) ==
    IF s.path = LongPath
    THEN {[stat |-> <<StatBuf("S_IFREG", 420, 0, n, 1, 1)>>,
           sum |-> NULL, time |-> t,
           file |-> [open |-> TRUE, data |-> LongLine(n), seekfail |-> 0]] :
            n \in {511, 512, 600}}
    ELSE IF s.path = LinesPath
    THEN {[stat |-> <<StatBuf("S_IFREG", 420, 0, Len(d), 1, 1)>>,
           sum |-> NULL, time |-> t,
           file |-> [open |-> op, data |-> d, seekfail |-> sf]] :
            d \in LineFiles, op \in BOOLEAN, sf \in {0, 1, 2}}
    ELSE {[stat |-> NULL], [stat |-> <<StatBuf("S_IFDIR", 493, 0, 0, 9, 0)>>]}
         \cup UNION {RegularEnvs(s, t, f) : f \in FileStates}

NodeEnvs(s, t, type) ==
    {[stat |-> NULL], [stat |-> <<StatBuf("S_IFREG", 420, 0, 0, 9, 0)>>]} \cup
    {[stat |-> <<st>>, time |-> tm] :
        st \in UNION {Stats(s, type, 0, 1, m) : m \in {1, 2}},
        tm \in IF s.timestamplist # <<>> THEN {-1, t} ELSE {t}}

ProgramEnvs(s) ==
    IF s.program.P = NULL THEN {[exit |-> 0, killed |-> 0, out |-> 0, exec |-> x] :
                                  x \in BOOLEAN}
    ELSE {[exit |-> -1, killed |-> 9, out |-> o, exec |-> x] :
            o \in {0, 5}, x \in BOOLEAN}
         \cup {[exit |-> r, killed |-> 0, out |-> o, exec |-> x] :
                 r \in {0, 1}, o \in {0, 5}, x \in BOOLEAN}

HostEnvs(s) ==
    {[icmp |-> r, conn |-> cc] :
        r \in IcmpChoices(s.icmplist), cc \in ConnChoices(s.portlist)}

Envs(s, run, t) ==
    CASE s.type = "TYPE_PROCESS"    -> ProcessEnvs(s, run)
      [] s.type = "TYPE_FILESYSTEM" -> FilesystemEnvs(s)
      [] s.type = "TYPE_FILE"       -> FileEnvs(s, t)
      [] s.type = "TYPE_DIRECTORY"  -> NodeEnvs(s, t, "S_IFDIR")
      [] s.type = "TYPE_FIFO"       -> NodeEnvs(s, t, "S_IFIFO")
      [] s.type = "TYPE_PROGRAM"    -> ProgramEnvs(s)
      [] s.type = "TYPE_HOST"       -> HostEnvs(s)
      [] s.type = "TYPE_SYSTEM"     -> {[none |-> TRUE]}

\* What the collaborators may answer during one pass of the main loop.
Answers(s, run, t) ==
    {[ctl |-> ctl, incron |-> incron, env |-> e] :
        ctl \in IF s.doaction # "ACTION_IGNORE" THEN ControlOutcomes
                ELSE {NoControl},
        incron \in IF s.every.type \in {"EVERY_CRON", "EVERY_NOTINCRON"}
                   THEN BOOLEAN ELSE {FALSE},
        e \in Envs(s, run, t)}

\* What control_service may answer to each service during the quick loop.
RECURSIVE CtlChoices(_)
CtlChoices(list) ==
    IF list = <<>> THEN {<<>>}
    ELSE {<<ctl>> \o rest :
            ctl \in IF list[1].doaction # "ACTION_IGNORE" THEN ControlOutcomes
                    ELSE {NoControl},
            rest \in CtlChoices(Tail(list))}

\* Whether some service tests a system-wide resource.
UsesSystem(list) == \E i \in 1..Len(list) : list[i].resourcelist # <<>>

(* -------------------------------------------------------------- actions *)

TypeOK ==
    /\ pc \in {"idle", "loop"}
    /\ idx \in 1..(Len(servicelist) + 1)
    /\ errors \in 0..Len(servicelist)
    /\ cycle \in 0..MaxCycles

\* A faulty variant of Continues: the loop does not look at Run.stopped.
ContinuesStopped(list, i, run) == i <= Len(list)

\* The condition of the main loop: s && !Run.stopped (line 158).
Continues(list, i, run) == i <= Len(list) /\ ~run.stopped

\* validate() up to the main loop (lines 141-157).
ValidateBegin ==
    /\ pc = "idle"
    /\ cycle < MaxCycles
    /\ ~Run.stopped
    /\ \E sys \in IF UsesSystem(servicelist) THEN SysSamples ELSE {NoSystem},
          ctls \in IF Run.doaction THEN CtlChoices(servicelist)
                   ELSE {[i \in 1..Len(servicelist) |-> NoControl]} :
         \E r \in {IF Run.doaction THEN drain(servicelist, ctls, 1, <<>>, <<>>)
                   ELSE [list |-> servicelist, ev |-> <<>>, calls |-> <<>>]} :
             /\ servicelist' = r.list
             /\ events' = r.ev
             /\ calls' = r.calls
             /\ systeminfo' = sys
    /\ Run' = [Run EXCEPT !.handler_flag = "HANDLER_SUCCEEDED",
                          !.doaction = FALSE]
    /\ startError' = [i \in 1..Len(servicelist) |-> servicelist[i].error]
    /\ previous' = events
    /\ clock' = clock + 1
    /\ now' = clock'
    /\ pc' = "loop"
    /\ idx' = 1
    /\ errors' = 0
    /\ UNCHANGED <<returned, cycle>>

\* One pass of the main loop (lines 158-171).
ValidateService ==
    /\ pc = "loop"
    /\ Continues(servicelist, idx, Run)
    /\ \E x \in Answers(servicelist[idx], Run, now) :
         \E r \in {validate_service([s |-> servicelist[idx], ev |-> events,
                                     calls |-> calls],
                                    systeminfo, Run, now, x)} :
             /\ servicelist' = [servicelist EXCEPT ![idx] = r.c.s]
             /\ events' = r.c.ev
             /\ calls' = r.c.calls
             /\ errors' = errors + r.err
    /\ idx' = idx + 1
    /\ UNCHANGED <<Run, systeminfo, pc, now, clock, startError, previous,
                   returned, cycle>>

\* A faulty variant of ValidateEnd: a cycle that checked no service returns -1.
ValidateEndNothing ==
    /\ pc = "loop"
    /\ ~Continues(servicelist, idx, Run)
    /\ servicelist' = reset_depend(servicelist)
    /\ returned' = IF idx = 1 THEN -1 ELSE errors
    /\ pc' = "idle"
    /\ cycle' = cycle + 1
    /\ UNCHANGED <<Run, systeminfo, idx, errors, now, clock, events, calls,
                   startError, previous>>

\* The end of validate(): reset_depend() and return errors (lines 173-175).
ValidateEnd ==
    /\ pc = "loop"
    /\ ~Continues(servicelist, idx, Run)
    /\ servicelist' = reset_depend(servicelist)
    /\ returned' = errors
    /\ pc' = "idle"
    /\ cycle' = cycle + 1
    /\ UNCHANGED <<Run, systeminfo, idx, errors, now, clock, events, calls,
                   startError, previous>>

\* Run.stopped is set from outside (a signal) while a cycle is running.
Stop ==
    /\ pc = "loop"
    /\ ~Run.stopped
    /\ Run' = [Run EXCEPT !.stopped = TRUE]
    /\ UNCHANGED <<servicelist, systeminfo, pc, idx, errors, now, clock, events,
                   calls, startError, previous, returned, cycle>>

\* The state after construction, for a set of service lists and of Run records;
\* first: the cycles counted as done, which leaves MaxCycles - first to run.
InitWith(lists, runs, first) ==
    /\ servicelist \in {Named(l) : l \in lists}
    /\ Run \in runs
    /\ systeminfo = NoSystem
    /\ pc = "idle"
    /\ idx = 1
    /\ errors = 0
    /\ now = 0
    /\ clock = 0
    /\ events = <<>>
    /\ calls = <<>>
    /\ startError = [i \in 1..Len(servicelist) |-> servicelist[i].error]
    /\ previous = <<>>
    /\ returned = 0
    /\ cycle = first

RunWith(doaction, doprocess) ==
    [doaction |-> doaction, doprocess |-> doprocess, stopped |-> FALSE,
     handler_flag |-> "HANDLER_SUCCEEDED"]

(* --------------------------------------- the driver over plain services *)

Schedules ==
    {[type |-> "EVERY_CYCLE", number |-> 0, counter |-> 0],
     [type |-> "EVERY_SKIPCYCLES", number |-> 2, counter |-> 0],
     [type |-> "EVERY_CRON", number |-> 0, counter |-> 0],
     [type |-> "EVERY_NOTINCRON", number |-> 0, counter |-> 0]}

Rates ==
    {[actionratelist |-> <<>>, nstart |-> 0],
     [actionratelist |-> <<ActionRate(1, 1, "ACTION_UNMONITOR")>>, nstart |-> 1],
     [actionratelist |-> <<ActionRate(1, 1, "ACTION_ALERT")>>, nstart |-> 1],
     [actionratelist |-> <<ActionRate(2, 2, "ACTION_ALERT")>>, nstart |-> 2],
     [actionratelist |-> <<ActionRate(2, 2, "ACTION_UNMONITOR"),
                           ActionRate(1, 1, "ACTION_ALERT")>>, nstart |-> 1]}

DriverFirst ==
    {Service("TYPE_FILE", [monitor |-> m, doaction |-> a, every |-> ev,
                           token |-> IF a = "ACTION_IGNORE" THEN NULL ELSE <<"token">>]
                          @@ r) :
        m \in {MONITOR_NOT, MONITOR_YES, MONITOR_INIT},
        a \in {"ACTION_IGNORE", "ACTION_START"},
        ev \in Schedules, r \in Rates}

DriverSecond ==
    {Service("TYPE_DIRECTORY", [monitor |-> MONITOR_YES,
                                action_NONEXIST |-> "ACTION_UNMONITOR"]),
     Service("TYPE_SYSTEM", [doaction |-> "ACTION_STOP", token |-> <<"token">>])}

DriverLists ==
    {<<>>} \cup {<<a>> : a \in DriverSecond}
    \cup {<<a, b>> : a \in DriverFirst, b \in DriverSecond}

Init == InitWith(DriverLists, {RunWith(d, FALSE) : d \in BOOLEAN}, MaxCycles - 2)

Next == ValidateBegin \/ ValidateService \/ ValidateEnd \/ Stop

Spec == Init /\ [][Next]_vars

(* ------------------------------------- the hosts and processes with ports *)

Ports ==
    {<<Port(80, r, SOCK_STREAM, "check_default")>> : r \in 0..MaxRetry} \cup
    {<<Port(53, 2, SOCK_DGRAM, "check_default"),
       Port(80, 1, SOCK_DGRAM, "check_http")>>}

Pings ==
    {<<Icmp(ICMP_ECHO)>>, <<Icmp(ICMP_ECHO), Icmp(ICMP_ECHO)>>,
     <<Icmp(ICMP_ECHO), Icmp("ICMP_TIMESTAMP")>>,
     <<Icmp("ICMP_TIMESTAMP"), Icmp(ICMP_ECHO)>>,
     <<Icmp(ICMP_ECHO), Icmp("ICMP_TIMESTAMP"), Icmp(ICMP_ECHO)>>}

ConnServices ==
    {Service("TYPE_HOST", [portlist |-> pl]) : pl \in Ports} \cup
    {Service("TYPE_HOST",
             [icmplist |-> il,
              portlist |-> <<Port(25, 2, SOCK_STREAM, "check_smtp"),
                             Port(80, 1, SOCK_STREAM, "check_http")>>]) :
        il \in Pings} \cup
    {Service("TYPE_PROCESS",
             [portlist |-> <<Port(22, 1, SOCK_STREAM, "check_ssh"),
                             Port(80, 2, SOCK_STREAM, "check_http")>>])}

ConnLists == {<<a>> : a \in ConnServices}

InitConn == InitWith(ConnLists, {RunWith(FALSE, FALSE)}, MaxCycles - 1)

SpecConn == InitConn /\ [][Next]_vars

(* --------------------------------------- the services with their sub-tests *)

Perm(perm) == <<[perm |-> perm, action |-> "ACTION_ALERT"]>>
Uid(uid) == <<[uid |-> uid, action |-> "ACTION_ALERT"]>>
Gid(gid) == <<[gid |-> gid, action |-> "ACTION_ALERT"]>>

Checksum(type, hash, changes) ==
    <<[type |-> type, hash |-> hash, initialized |-> ~changes,
       test_changes |-> changes, action |-> "ACTION_ALERT"]>>

Size(operator, size, changes) ==
    [operator |-> operator, size |-> size, test_changes |-> changes,
     initialized |-> FALSE, action |-> "ACTION_ALERT"]

Timestamp(operator, time, changes) ==
    [operator |-> operator, time |-> time, test_changes |-> changes,
     timestamp |-> 0, action |-> "ACTION_ALERT"]

Uptime(operator, uptime) ==
    [operator |-> operator, uptime |-> uptime, action |-> "ACTION_ALERT"]

Match(str, not) ==
    [match_string |-> str, not |-> not, action |-> "ACTION_ALERT"]

Resource(id, operator, limit) ==
    [resource_id |-> id, operator |-> operator, limit |-> limit,
     action |-> "ACTION_ALERT"]

Filesystem(resource, operator, percent, absolute) ==
    [resource |-> resource, operator |-> operator, limit_percent |-> percent,
     limit_absolute |-> absolute, action |-> "ACTION_ALERT"]

Status(operator, value) ==
    [operator |-> operator, return_value |-> value, action |-> "ACTION_ALERT"]

FileOwner ==
    Service("TYPE_FILE", [perm |-> Perm(420), uid |-> Uid(0), gid |-> Gid(0)])

FileSums ==
    {Service("TYPE_FILE",
             [checksum |-> cs, perm |-> Perm(420),
              sizelist |-> <<Size("Operator_Greater", 5, FALSE),
                             Size("Operator_Equal", 0, TRUE),
                             Size("Operator_Less", 1, FALSE),
                             Size("Operator_Equal", 0, TRUE)>>]) :
        cs \in {Checksum("HASH_MD5", <<"b", "a">>, FALSE),
                Checksum("HASH_SHA1", <<"", "">>, TRUE),
                Checksum("HASH_UNKNOWN", <<"a", "a">>, FALSE)}}

FileContents ==
    {Service("TYPE_FILE",
             [path |-> p,
              timestamplist |-> <<Timestamp("Operator_Greater", 0, FALSE),
                                  Timestamp("Operator_Equal", 0, TRUE),
                                  Timestamp("Operator_Equal", 0, TRUE)>>,
              matchlist |-> <<Match(<<"o", "o">>, FALSE),
                              Match(<<"b">>, TRUE)>>,
              matchignorelist |-> <<Match(<<"r">>, FALSE)>>]) :
        p \in {"/var/log/messages", "/proc/loadavg"}}

FileLong ==
    Service("TYPE_FILE",
            [path |-> LongPath,
             matchlist |-> <<Match(<<"o", "o">>, FALSE), Match(<<"z">>, FALSE)>>])

FileLines ==
    Service("TYPE_FILE",
            [path |-> LinesPath,
             matchlist |-> <<Match(<<"o", "o">>, FALSE), Match(<<"z">>, TRUE)>>,
             matchignorelist |-> <<Match(<<"q">>, FALSE)>>])

FileAll ==
    Service("TYPE_FILE",
            [checksum |-> Checksum("HASH_MD5", <<"b", "a">>, FALSE),
             perm |-> Perm(420), uid |-> Uid(0), gid |-> Gid(0),
             sizelist |-> <<Size("Operator_Greater", 5, FALSE)>>,
             timestamplist |-> <<Timestamp("Operator_Greater", 1, FALSE)>>,
             matchlist |-> <<Match(<<"o", "o">>, FALSE)>>])

FilesystemTests ==
    Service("TYPE_FILESYSTEM",
            [perm |-> Perm(420),
             filesystemlist |->
                <<Filesystem("RESOURCE_ID_INODE", "Operator_Greater", 800, -1),
                  Filesystem("RESOURCE_ID_SPACE", "Operator_Greater", -1, 90),
                  Filesystem("RESOURCE_ID_SPACE", "Operator_Greater", -1, -1)>>])

ProcessTests ==
    {Service("TYPE_PROCESS",
             [uptimelist |-> <<Uptime("Operator_Less", 10)>>,
              resourcelist |->
                 <<Resource("RESOURCE_ID_CPU_PERCENT", "Operator_Greater", 900),
                   Resource("RESOURCE_ID_MEM_KBYTE", "Operator_Greater", 5000),
                   Resource("RESOURCE_ID_SWAP_KBYTE", "Operator_Greater", 0)>>,
              portlist |-> <<Port(80, 1, SOCK_STREAM, "check_http")>>]),
     Service("TYPE_PROCESS",
             [actionratelist |-> <<ActionRate(1, 1, "ACTION_ALERT")>>,
              nstart |-> 1]),
     Service("TYPE_PROCESS",
             [resourcelist |->
                 <<Resource("RESOURCE_ID_CPU_PERCENT", "Operator_Greater", 900),
                   Resource("RESOURCE_ID_TOTAL_CPU_PERCENT", "Operator_Greater",
                            900)>>]),
     Service("TYPE_PROCESS", [error |-> {"Exec"}]),
     Service("TYPE_PROCESS",
             [error |-> {"Exec", "Timeout"},
              actionratelist |-> <<ActionRate(3, 1, "ACTION_ALERT"),
                                   ActionRate(5, 2, "ACTION_RESTART")>>,
              resourcelist |->
                 <<Resource("RESOURCE_ID_CHILDREN", "Operator_Greater", 3)>>,
              portlist |-> <<Port(80, 1, SOCK_STREAM, "check_http")>>])}

NodeTests ==
    {Service(type, [perm |-> Perm(420),
                    timestamplist |->
                       <<Timestamp("Operator_Greater", 1, FALSE)>>]) :
        type \in {"TYPE_DIRECTORY", "TYPE_FIFO"}}

ProgramTests ==
    {Service("TYPE_PROGRAM",
             [statuslist |-> <<Status("Operator_NotEqual", 0),
                               Status("Operator_Greater", 5)>>,
              program |-> [P |-> NULL, started |-> 0, timeout |-> tm,
                           exitStatus |-> 0]]) : tm \in {0, 5}}
    \cup
    {Service("TYPE_PROGRAM",
             [statuslist |-> <<Status("Operator_NotEqual", 0),
                               Status("Operator_Less", 5)>>,
              program |-> [P |-> <<"Process_T">>, started |-> 0, timeout |-> 1,
                           exitStatus |-> 0]])}

HostTests ==
    {Service("TYPE_HOST",
             [icmplist |-> il,
              portlist |-> <<Port(80, 1, SOCK_STREAM, "check_http")>>]) :
        il \in {<<Icmp(ICMP_ECHO)>>,
                <<Icmp(ICMP_ECHO), Icmp("ICMP_TIMESTAMP")>>}}

SystemTests ==
    Service("TYPE_SYSTEM",
            [resourcelist |->
                <<Resource("RESOURCE_ID_LOAD1", "Operator_Greater", 40),
                  Resource("RESOURCE_ID_CPUSYSTEM", "Operator_Greater", 500),
                  Resource("RESOURCE_ID_SWAP_PERCENT", "Operator_Greater", 250)>>])

TestServices ==
    {FileOwner, FileLong, FileLines, FilesystemTests, SystemTests} \cup FileSums \cup FileContents
    \cup ProcessTests \cup NodeTests \cup ProgramTests \cup HostTests

TestLists == {<<a>> : a \in TestServices}

InitTests ==
    \/ InitWith(TestLists, {RunWith(FALSE, d) : d \in BOOLEAN}, MaxCycles - 2)
    \/ InitWith({<<FileAll>>}, {RunWith(FALSE, FALSE)}, MaxCycles - 1)
    \/ InitWith({<<Service("TYPE_FILE",
                           [checksum |-> Checksum("HASH_SHA1", <<"", "">>, TRUE),
                            sizelist |-> <<Size("Operator_Greater", 5, FALSE),
                                           Size("Operator_Equal", 0, TRUE)>>,
                            actionratelist |->
                               <<ActionRate(1, 1, "ACTION_ALERT")>>,
                            nstart |-> 1])>>},
                {RunWith(FALSE, FALSE)}, MaxCycles - 3)

SpecTests == InitTests /\ [][Next]_vars

(* ----------------------------------- the services tested every N cycles *)

\* Services tested every 1, 2 or 3 cycles, their counters at 0.
SkipServices ==
    {Service(type, [monitor |-> m,
                    every |-> [type |-> "EVERY_SKIPCYCLES", number |-> n,
                               counter |-> 0]]) :
        type \in {"TYPE_FILE", "TYPE_SYSTEM"},
        m \in {MONITOR_YES, MONITOR_INIT}, n \in {1, 2, 3}}

InitSkip ==
    InitWith({<<a>> : a \in SkipServices}
             \cup {<<a, b>> : a, b \in {x \in SkipServices :
                                          /\ x.type = "TYPE_SYSTEM"
                                          /\ x.monitor = MONITOR_YES
                                          /\ x.every.number > 1}},
             {RunWith(FALSE, FALSE)}, 0)

SpecSkip == InitSkip /\ [][Next]_vars

(* ================================================================ claims *)

\* The services the main loop has passed in the current cycle.
Visited == 1..(idx - 1)

\* The events posted for service i since the cycle began, in order.
EventsOf(i) == SelectSeq(events, LAMBDA e : e.svc = i)

\* The events of kind id posted for service i since the cycle began.
KindOf(i, id) == SelectSeq(events, LAMBDA e : e.svc = i /\ e.id = id)

\* The calls of fn made for service i since the cycle began, in order.
CallsOf(i, fn) == SelectSeq(calls, LAMBDA k : k.svc = i /\ k.fn = fn)

\* Whether the validator of service i was invoked, and what it returned.
Invoked(i) == CallsOf(i, "check") # <<>>
Returned(i) == CallsOf(i, "check")[1].rv

\* The attempts check_connection made on port pi of service i.
Attempts(i, pi) ==
    SelectSeq(calls,
              LAMBDA k : k.svc = i /\ k.fn = "socket_create" /\ k.arg = pi)

\* Every message a Connection event about port p can carry.
PortMsgs(p) ==
    {"connection succeeded to " \o Util_portDescription(p)}
    \cup ({AttemptReport(p, o) : o \in AttemptOutcomes} \ {""})

\* The Connection events about port pi of service i.
PortEvents(i, pi) ==
    SelectSeq(events,
              LAMBDA e : /\ e.svc = i
                         /\ e.id = "Connection"
                         /\ e.msg \in PortMsgs(servicelist[i].portlist[pi]))

\* C1: the validator of a service is invoked in a cycle iff do_scheduled_action
\* returned false in the main loop, the service was monitored, check_skip
\* returned false and the service is still monitored after check_timeout;
\* validators run in list order; validate() returns the number of invoked
\* validators that returned false.
C1_ValidatorInvokedIff ==
    /\ \A i \in Visited :
         Invoked(i) <=>
           /\ ~CallsOf(i, "do_scheduled_action")[1].rv
           /\ CallsOf(i, "do_scheduled_action")[1].monitor # MONITOR_NOT
           /\ CallsOf(i, "check_skip") # <<>>
           /\ ~CallsOf(i, "check_skip")[1].rv
           /\ CallsOf(i, "check_timeout") # <<>>
           /\ CallsOf(i, "check_timeout")[1].monitor # MONITOR_NOT
    /\ \A i \in 1..Len(servicelist) : i \notin Visited => ~Invoked(i)
    /\ \A a, b \in 1..Len(calls) :
         a < b /\ calls[a].fn = "check" /\ calls[b].fn = "check"
            => calls[a].svc < calls[b].svc
    /\ errors = Len(SelectSeq(calls, LAMBDA k : k.fn = "check" /\ ~k.rv))
    /\ pc = "idle" => returned = errors

\* A cycle has ended in which one validator returned false, another service
\* was passed without its validator being invoked, and validate() returned 1.
C1_Witness ==
    /\ pc = "idle"
    /\ cycle > 0
    /\ returned = 1
    /\ \E i \in Visited : Invoked(i) /\ ~Returned(i)
    /\ \E i \in Visited : ~Invoked(i)

\* C2: when an attempt of check_connection succeeds, after failed attempts or
\* not, the probe ends with exactly one Connection event, in state SUCCEEDED,
\* the port available and its response the measured time, not -1.
C2_SuccessAfterRetry ==
    \A i \in Visited : \A pi \in 1..Len(servicelist[i].portlist) :
        (\E k \in 1..Len(Attempts(i, pi)) : Attempts(i, pi)[k].rv = "")
        => /\ Len(PortEvents(i, pi)) = 1
           /\ PortEvents(i, pi)[1].state = "SUCCEEDED"
           /\ servicelist[i].portlist[pi].is_available
           /\ servicelist[i].portlist[pi].response >= 0

\* The attempts of a port with retry 3 failed twice at the protocol test and
\* then succeeded, and the probe ended with Connection FAILED, response -1.
C2_Witness ==
    \E i \in Visited : \E pi \in 1..Len(servicelist[i].portlist) :
        LET p == servicelist[i].portlist[pi]
            a == Attempts(i, pi)
        IN  /\ p.retry = 3
            /\ Len(a) = 3
            /\ a[1].rv = "failed protocol test at " \o Util_portDescription(p)
            /\ a[2].rv = a[1].rv
            /\ a[3].rv = ""
            /\ PortEvents(i, pi)[1].state = "FAILED"
            /\ p.response = -1
            /\ ~p.is_available

\* C3: when every attempt on a port fails, check_connection has made
\* max(1, p.retry) attempts, has set p.response = -1 and p.is_available =
\* false, and has posted one Connection FAILED event with the report of the
\* last attempt.
C3_AttemptsWhenAllFail ==
    \A i \in Visited : \A pi \in 1..Len(servicelist[i].portlist) :
        LET p == servicelist[i].portlist[pi]
            a == Attempts(i, pi)
        IN  (a # <<>> /\ \A k \in 1..Len(a) : a[k].rv # "")
            => /\ Len(a) = MAX(1, p.retry)
               /\ p.response = -1
               /\ ~p.is_available
               /\ Len(PortEvents(i, pi)) = 1
               /\ PortEvents(i, pi)[1].state = "FAILED"
               /\ PortEvents(i, pi)[1].msg = Last(a).rv

\* A port with retry 3 whose three attempts all failed, the last one at the
\* protocol test.
C3_Witness ==
    \E i \in Visited : \E pi \in 1..Len(servicelist[i].portlist) :
        /\ servicelist[i].portlist[pi].retry = 3
        /\ Len(Attempts(i, pi)) = 3
        /\ \A k \in 1..3 : Attempts(i, pi)[k].rv # ""
        /\ PortEvents(i, pi)[1].msg
             = "failed protocol test at "
                 \o Util_portDescription(servicelist[i].portlist[pi])

\* C3 as the specification words it: when every attempt fails the attempts
\* total exactly p.retry, for every configured p.retry.
C3_ExactlyRetryAttempts ==
    \A i \in Visited : \A pi \in 1..Len(servicelist[i].portlist) :
        LET a == Attempts(i, pi)
        IN  (a # <<>> /\ \A k \in 1..Len(a) : a[k].rv # "")
            => Len(a) = servicelist[i].portlist[pi].retry

\* C4: when a Process or Host validator reaches its port phase (it returns
\* true), the cycle holds exactly one Connection event for each port of the
\* service, in list order, whatever the retries and the attempts' outcomes.
C4_OneConnectionEventPerPort ==
    \A i \in Visited :
        (/\ servicelist[i].type \in {"TYPE_PROCESS", "TYPE_HOST"}
         /\ Invoked(i)
         /\ Returned(i))
        => /\ Len(KindOf(i, "Connection")) = Len(servicelist[i].portlist)
           /\ \A pi \in 1..Len(servicelist[i].portlist) :
                KindOf(i, "Connection")[pi].msg
                    \in PortMsgs(servicelist[i].portlist[pi])

\* A service with two ports: the first failed after a retry, the second
\* succeeded, and each has its one Connection event, in list order.
C4_Witness ==
    \E i \in Visited :
        /\ Invoked(i)
        /\ Returned(i)
        /\ Len(servicelist[i].portlist) = 2
        /\ Len(Attempts(i, 1)) = 2
        /\ Len(KindOf(i, "Connection")) = 2
        /\ KindOf(i, "Connection")[1].state = "FAILED"
        /\ KindOf(i, "Connection")[2].state = "SUCCEEDED"

\* The icmp_echo calls check_remote_host made for service i.
Echoes(i) == CallsOf(i, "icmp_echo")

\* C5: in check_remote_host, when the last ICMP rule evaluated was answered -1
\* the validator returns false, posts no Connection event and probes no port;
\* when the last rule of the list is available (-2 included) every port is
\* probed, even when an earlier rule failed.
C5_LastPingDecides ==
    \A i \in Visited :
        (servicelist[i].type = "TYPE_HOST" /\ Invoked(i) /\ Echoes(i) # <<>>)
        => /\ Last(Echoes(i)).rv = -1
              => /\ ~Returned(i)
                 /\ KindOf(i, "Connection") = <<>>
                 /\ CallsOf(i, "socket_create") = <<>>
           /\ (/\ Last(Echoes(i)).arg = Len(servicelist[i].icmplist)
               /\ Last(Echoes(i)).rv # -1)
              => /\ Returned(i)
                 /\ \A pi \in 1..Len(servicelist[i].portlist) :
                      /\ Attempts(i, pi) # <<>>
                      /\ Len(PortEvents(i, pi)) = 1

\* A host whose first ping failed and whose last ping was skipped for want of
\* privilege (-2): both its ports were probed.
C5_Witness ==
    \E i \in Visited :
        /\ servicelist[i].type = "TYPE_HOST"
        /\ Len(Echoes(i)) = 2
        /\ Echoes(i)[1].rv = -1
        /\ Echoes(i)[2].rv = -2
        /\ Len(servicelist[i].portlist) = 2
        /\ Attempts(i, 1) # <<>>
        /\ Attempts(i, 2) # <<>>

\* The kinds on which each validator posts its fatal FAILED event.
FatalKinds(type) ==
    CASE type = "TYPE_PROCESS" -> {"Nonexist"}
      [] type = "TYPE_FILESYSTEM" -> {"Nonexist", "Data"}
      [] type \in {"TYPE_FILE", "TYPE_DIRECTORY", "TYPE_FIFO"} ->
            {"Nonexist", "Invalid"}
      [] type = "TYPE_HOST" -> {"Icmp"}
      [] OTHER -> {}

\* check_remote_host met a rule of a type other than ICMP_ECHO: the rule after
\* the last one it sent a ping for.
UnknownIcmp(i) ==
    /\ servicelist[i].type = "TYPE_HOST"
    /\ Len(Echoes(i)) < Len(servicelist[i].icmplist)
    /\ servicelist[i].icmplist[Len(Echoes(i)) + 1].type # ICMP_ECHO

\* C6: when a validator returns false, the last event posted for the service
\* in the cycle is a FAILED event of the validator's fatal kinds, so no later
\* sub-test has run; the one exception is check_remote_host on a rule of
\* unknown ICMP type, which returns false without an event and probes no port.
C6_FalseMeansFailedPosted ==
    \A i \in Visited :
        (Invoked(i) /\ ~Returned(i))
        => \/ /\ UnknownIcmp(i)
              /\ CallsOf(i, "socket_create") = <<>>
              /\ KindOf(i, "Connection") = <<>>
           \/ /\ EventsOf(i) # <<>>
              /\ Last(EventsOf(i)).state = "FAILED"
              /\ Last(EventsOf(i)).id \in FatalKinds(servicelist[i].type)
              /\ CallsOf(i, "socket_create") = <<>>

\* A File service with a permission test whose path is no regular file: the
\* validator returned false, Invalid FAILED is its last event, and no
\* Permission event was posted.
C6_Witness ==
    \E i \in Visited :
        /\ Invoked(i)
        /\ ~Returned(i)
        /\ servicelist[i].type = "TYPE_FILE"
        /\ servicelist[i].perm # NULL
        /\ Last(EventsOf(i)).id = "Invalid"
        /\ Last(EventsOf(i)).state = "FAILED"
        /\ KindOf(i, "Permission") = <<>>

\* C6 as the specification words it: a validator that returns false has
\* posted a FAILED event of its fatal kinds during the invocation.
C6_FalseAlwaysPosts ==
    \A i \in Visited :
        (Invoked(i) /\ ~Returned(i))
        => \E k \in 1..Len(EventsOf(i)) :
              /\ EventsOf(i)[k].state = "FAILED"
              /\ EventsOf(i)[k].id \in FatalKinds(servicelist[i].type)

\* Whether update_process_data succeeded for service i in this cycle.
UpdateOk(i) ==
    /\ CallsOf(i, "update_process_data") # <<>>
    /\ CallsOf(i, "update_process_data")[1].rv

\* The number of resource rules whose resource check_process_resources knows.
KnownRules(s) ==
    Len(SelectSeq(s.resourcelist, LAMBDA r : r.resource_id \in KnownResources))

\* The kinds whose tests post FAILED or SUCCEEDED only.
TwoStateKinds ==
    {"Permission", "Uid", "Gid", "Connection", "Uptime", "Resource", "Data"}

\* C7: in a validator invocation that returns true, each configured perm, uid
\* and gid test and each port's connection test has posted exactly one event,
\* whatever the sub-tests before it found; on a Process whose data update
\* succeeded, the state test has posted one Data event, each uptime rule one
\* Uptime event and each rule on a known resource one Resource event; on the
\* System service each rule on a known resource has posted one Resource
\* event; and each of these events is in state FAILED or SUCCEEDED.
C7_SubTestsRun ==
    \A i \in Visited :
        (Invoked(i) /\ Returned(i))
        => LET s == servicelist[i]
           IN  /\ s.type \in {"TYPE_FILE", "TYPE_DIRECTORY", "TYPE_FIFO",
                              "TYPE_FILESYSTEM"}
                  => /\ Len(KindOf(i, "Permission")) = Len(s.perm)
                     /\ Len(KindOf(i, "Uid")) = Len(s.uid)
                     /\ Len(KindOf(i, "Gid")) = Len(s.gid)
               /\ s.type \in {"TYPE_PROCESS", "TYPE_HOST"}
                  => Len(KindOf(i, "Connection")) = Len(s.portlist)
               /\ (s.type = "TYPE_PROCESS" /\ UpdateOk(i))
                  => /\ Len(KindOf(i, "Data")) = 1
                     /\ Len(KindOf(i, "Uptime")) = Len(s.uptimelist)
                     /\ Len(KindOf(i, "Resource")) = KnownRules(s)
               /\ s.type = "TYPE_SYSTEM"
                  => Len(KindOf(i, "Resource")) = KnownRules(s)
               /\ \A k \in 1..Len(EventsOf(i)) :
                     EventsOf(i)[k].id \in TwoStateKinds
                        => EventsOf(i)[k].state \in {"FAILED", "SUCCEEDED"}

\* A File service whose permission test failed and whose uid and gid tests
\* ran all the same, the gid test failing too.
C7_Witness ==
    \E i \in Visited :
        /\ Invoked(i)
        /\ Returned(i)
        /\ Len(KindOf(i, "Permission")) = 1
        /\ KindOf(i, "Permission")[1].state = "FAILED"
        /\ Len(KindOf(i, "Uid")) = 1
        /\ Len(KindOf(i, "Gid")) = 1
        /\ KindOf(i, "Gid")[1].state = "FAILED"

\* The kinds of the sub-tests configured on service s.
Configured(s) ==
    (IF s.perm # NULL THEN {"Permission"} ELSE {})
    \cup (IF s.uid # NULL THEN {"Uid"} ELSE {})
    \cup (IF s.gid # NULL THEN {"Gid"} ELSE {})
    \cup (IF s.sizelist # <<>> THEN {"Size"} ELSE {})
    \cup (IF s.timestamplist # <<>> THEN {"Timestamp"} ELSE {})
    \cup (IF s.uptimelist # <<>> THEN {"Uptime"} ELSE {})
    \cup (IF s.checksum # NULL THEN {"Checksum"} ELSE {})
    \cup (IF s.matchlist # <<>> THEN {"Content"} ELSE {})
    \cup (IF s.type = "TYPE_FILESYSTEM" THEN {"Fsflag"} ELSE {})
    \cup (IF s.filesystemlist # <<>> \/ s.resourcelist # <<>>
          THEN {"Resource"} ELSE {})
    \cup (IF s.type = "TYPE_PROCESS" THEN {"Data", "Pid", "PPid"} ELSE {})
    \cup (IF s.portlist # <<>> THEN {"Connection"} ELSE {})

\* C7 as the specification words it: in an invocation that does not end
\* fatally every configured sub-test posts an event in state FAILED or
\* SUCCEEDED.
C7_EverySubTestPosts ==
    \A i \in Visited :
        (Invoked(i) /\ Returned(i))
        => \A K \in Configured(servicelist[i]) :
              \E k \in 1..Len(KindOf(i, K)) :
                  KindOf(i, K)[k].state \in {"FAILED", "SUCCEEDED"}

\* The place of an event in the sequence check_file posts its events in.
FileRank(e) ==
    CASE e.id = "Nonexist" -> 1
      [] e.id = "Invalid" -> 2
      [] e.id = "Data" /\ e.msg \in {"checksum computed",
                                     "cannot compute checksum"} -> 3
      [] e.id = "Checksum" -> 4
      [] e.id = "Permission" -> 5
      [] e.id = "Uid" -> 6
      [] e.id = "Gid" -> 7
      [] e.id = "Size" -> 8
      [] e.id = "Data" /\ e.msg \in {"actual system time obtained",
                                     "can't obtain actual system time"} -> 9
      [] e.id = "Timestamp" -> 10
      [] e.id = "Content" -> 11
      [] OTHER -> 0

\* C8: within one cycle the events of a File service come in the sequence
\* Nonexist, Invalid, Data and Checksum (the checksum test), Permission, Uid,
\* Gid, Size, Data and Timestamp (the timestamp test), Content.
C8_FileEventOrder ==
    \A i \in Visited :
        servicelist[i].type = "TYPE_FILE"
        => \A a, b \in 1..Len(EventsOf(i)) :
              a < b => FileRank(EventsOf(i)[a]) <= FileRank(EventsOf(i)[b])

\* A File service with every test configured: its Checksum event precedes its
\* Permission event, and its Content event comes last.
C8_Witness ==
    \E i \in Visited :
        /\ servicelist[i].type = "TYPE_FILE"
        /\ Invoked(i)
        /\ Returned(i)
        /\ {"Checksum", "Permission", "Uid", "Gid", "Size", "Timestamp",
            "Content"} \subseteq {EventsOf(i)[k].id : k \in 1..Len(EventsOf(i))}
        /\ \E a, b \in 1..Len(EventsOf(i)) :
              /\ a < b
              /\ EventsOf(i)[a].id = "Checksum"
              /\ EventsOf(i)[b].id = "Permission"
        /\ Last(EventsOf(i)).id = "Content"

\* C8 as the specification words it: no content-specific event (Checksum,
\* Size, Timestamp, Content) of a File service precedes a Permission, Uid or
\* Gid event of the same cycle.
C8_OwnerBeforeContent ==
    \A i \in Visited :
        servicelist[i].type = "TYPE_FILE"
        => \A a, b \in 1..Len(EventsOf(i)) :
              (/\ a < b
               /\ EventsOf(i)[a].id \in {"Checksum", "Size", "Timestamp",
                                         "Content"})
              => EventsOf(i)[b].id \notin {"Permission", "Uid", "Gid"}

\* C9: when a service enters a cycle with a Timeout failure recorded from an
\* earlier cycle, is validated in this cycle and none of its action-rate rules
\* is hit any more, a Timeout event in state SUCCEEDED is posted for it.
C9_TimeoutFailureClears ==
    \A i \in Visited :
        (/\ "Timeout" \in startError[i]
         /\ Invoked(i)
         /\ \A k \in 1..Len(KindOf(i, "Timeout")) :
               KindOf(i, "Timeout")[k].state # "FAILED")
        => \E k \in 1..Len(KindOf(i, "Timeout")) :
              KindOf(i, "Timeout")[k].state = "SUCCEEDED"

\* A File service entered the cycle with a Timeout failure recorded, was
\* validated, no rule was hit and no Timeout event was posted at all.
C9_Witness ==
    \E i \in Visited :
        /\ servicelist[i].type = "TYPE_FILE"
        /\ "Timeout" \in startError[i]
        /\ Invoked(i)
        /\ KindOf(i, "Timeout") = <<>>
        /\ "Timeout" \in servicelist[i].error

\* The kinds a validator or check_timeout tests once for a service with at
\* most one action-rate rule.
SingleKinds ==
    {"Nonexist", "Invalid", "Timeout", "Exec", "Pid", "PPid", "Fsflag",
     "Permission", "Uid", "Gid", "Checksum"}

\* C10: within one cycle no service gets two events of the same kind from
\* the tests that are evaluated once.
C10_OneEventPerKind ==
    \A i \in Visited : \A K \in SingleKinds :
        Len(servicelist[i].actionratelist) <= 1 => Len(KindOf(i, K)) <= 1

\* A Filesystem service on a symbolic link with two Nonexist events in one
\* cycle, the first SUCCEEDED and the second FAILED.
C10_Witness ==
    \E i \in Visited :
        /\ servicelist[i].type = "TYPE_FILESYSTEM"
        /\ Len(KindOf(i, "Nonexist")) = 2
        /\ KindOf(i, "Nonexist")[1].state = "SUCCEEDED"
        /\ KindOf(i, "Nonexist")[2].state = "FAILED"

\* The monitoring mode of service i as the call of fn left it.
MonitorAt(i, fn) == CallsOf(i, fn)[1].monitor

CycleNo == IF pc = "loop" THEN cycle + 1 ELSE cycle

\* C12: a service tested every N cycles (N >= 1) whose counter started at 0
\* and which check_skip has seen in every cycle: the call in cycle k returns
\* true and sets MONITOR_WAITING unless k is a multiple of N, and then it
\* returns false, clears MONITOR_WAITING and leaves the counter 0; the
\* counter after the call is k mod N.
C12_SkipCyclesPeriod ==
    \A i \in Visited :
        LET s == servicelist[i]
            N == s.every.number
            skip == CallsOf(i, "check_skip")
        IN  (s.every.type = "EVERY_SKIPCYCLES" /\ N >= 1)
            => /\ Len(skip) = 1
               /\ skip[1].rv = (CycleNo % N # 0)
               /\ (MONITOR_WAITING \subseteq skip[1].monitor) = skip[1].rv
               /\ s.every.counter = CycleNo % N
               /\ Invoked(i) = ~skip[1].rv

\* The fourth cycle of a service tested every 2 cycles: check_skip has
\* returned false for the second time and the validator has run.
C12_Witness ==
    \E i \in Visited :
        /\ servicelist[i].every.type = "EVERY_SKIPCYCLES"
        /\ servicelist[i].every.number = 2
        /\ CycleNo = 4
        /\ ~CallsOf(i, "check_skip")[1].rv
        /\ servicelist[i].every.counter = 0
        /\ Invoked(i)

\* C13: check_skip on a service that is not marked visited: with EVERY_CRON
\* it returns false exactly when the cycle time matches the cron spec, with
\* EVERY_NOTINCRON exactly when it does not match; MONITOR_WAITING is set
\* when it returns true and cleared when it returns false.  On a service
\* marked visited it returns true whatever the time, and leaves the
\* monitoring mode as it found it.
C13_CronDecides ==
    \A i \in Visited :
        LET every == servicelist[i].every.type
            skip == CallsOf(i, "check_skip")
        IN  skip # <<>>
            => IF skip[1].visited
               THEN /\ skip[1].rv
                    /\ skip[1].monitor = MonitorAt(i, "do_scheduled_action")
               ELSE /\ every = "EVERY_CRON" => skip[1].rv = ~skip[1].arg
                    /\ every = "EVERY_NOTINCRON" => skip[1].rv = skip[1].arg
                    /\ every = "EVERY_CYCLE" => ~skip[1].rv
                    /\ (MONITOR_WAITING \subseteq skip[1].monitor) = skip[1].rv

\* A service under EVERY_CRON that was waiting since an earlier cycle: the
\* time matches, check_skip has returned false and cleared MONITOR_WAITING.
C13_Witness ==
    \E i \in Visited :
        /\ servicelist[i].every.type = "EVERY_CRON"
        /\ CallsOf(i, "check_skip") # <<>>
        /\ MONITOR_WAITING \subseteq MonitorAt(i, "do_scheduled_action")
        /\ CallsOf(i, "check_skip")[1].arg
        /\ ~CallsOf(i, "check_skip")[1].rv
        /\ ~(MONITOR_WAITING \subseteq MonitorAt(i, "check_skip"))

\* C13 as the specification words it: under EVERY_CRON check_skip returns
\* false exactly when the time matches, under EVERY_NOTINCRON exactly when it
\* does not.
C13_CronAlone ==
    \A i \in Visited :
        LET every == servicelist[i].every.type
            skip == CallsOf(i, "check_skip")
        IN  skip # <<>>
            => /\ every = "EVERY_CRON" => skip[1].rv = ~skip[1].arg
               /\ every = "EVERY_NOTINCRON" => skip[1].rv = skip[1].arg

\* C14: check_timeout on a service with at least one action-rate rule: when
\* ncycle, after the increment of this call, exceeds the largest cycle of
\* the rules, nstart and ncycle are both 0 at return; otherwise nstart is
\* unchanged and ncycle is the incremented value, so that the two are never
\* reset one without the other.
C14_TimeoutResetsBoth ==
    \A i \in Visited :
        LET s == servicelist[i]
            t == CallsOf(i, "check_timeout")
            before == t[1].arg
            counted == IF before.nstart > 0 THEN before.ncycle + 1 ELSE before.ncycle
        IN  (t # <<>> /\ s.actionratelist # <<>>)
            => IF counted > MaxCycle(s.actionratelist)
               THEN s.nstart = 0 /\ s.ncycle = 0
               ELSE s.nstart = before.nstart /\ s.ncycle = counted

\* A service restarted once under a rule of one cycle: its second counted
\* cycle has exceeded the rule's window and both counters are back at 0.
C14_Witness ==
    \E i \in Visited :
        /\ servicelist[i].actionratelist # <<>>
        /\ CallsOf(i, "check_timeout") # <<>>
        /\ CallsOf(i, "check_timeout")[1].arg.nstart > 0
        /\ CallsOf(i, "check_timeout")[1].arg.ncycle + 1
               > MaxCycle(servicelist[i].actionratelist)
        /\ servicelist[i].nstart = 0
        /\ servicelist[i].ncycle = 0

\* The calls of do_scheduled_action made by the quick loop, in call order.
DrainCalls == SelectSeq(calls, LAMBDA k : k.fn = "drain")

\* C15: a cycle that starts with Run.doaction set clears the flag and calls
\* do_scheduled_action for every service in list order before any call of
\* the main loop (do_scheduled_action, check_skip, check_timeout, a
\* validator); after the quick loop every doaction is ACTION_IGNORE; and a
\* service whose action ran in the quick loop is not held back by the main
\* loop's do_scheduled_action, which returns false without a second call of
\* control_service.
C15_DrainBeforeTests ==
    /\ pc = "loop" => ~Run.doaction
    /\ (pc = "idle" /\ Run.doaction) => calls = <<>>
    /\ DrainCalls # <<>>
       => /\ Len(DrainCalls) = Len(servicelist)
          /\ \A k \in 1..Len(DrainCalls) : DrainCalls[k].svc = k
          /\ \A q, p \in 1..Len(calls) :
                (calls[q].fn = "drain"
                 /\ calls[p].fn \notin {"drain", "control_service"}) => q < p
          /\ \A i \in 1..Len(servicelist) :
                /\ servicelist[i].doaction = "ACTION_IGNORE"
                /\ Len(CallsOf(i, "control_service")) <= 1
          /\ \A i \in Visited :
                /\ Len(CallsOf(i, "do_scheduled_action")) = 1
                /\ ~CallsOf(i, "do_scheduled_action")[1].rv

\* Two services with a pending action each: both actions ran in the quick
\* loop, and the validator of the first service has run in the same cycle.
C15_Witness ==
    /\ Len(DrainCalls) = 2
    /\ DrainCalls[1].rv
    /\ CallsOf(1, "control_service") # <<>>
    /\ CallsOf(2, "control_service") # <<>>
    /\ 1 \in Visited
    /\ Invoked(1)

\* The calls of do_scheduled_action on service i in this cycle, the quick
\* loop's before the main loop's.
ScheduledCalls(i) == CallsOf(i, "drain") \o CallsOf(i, "do_scheduled_action")

\* C16: the first do_scheduled_action of a cycle on a service with a pending
\* action calls control_service once with that action, posts one Action
\* event in state CHANGED whatever control_service returned, and returns
\* control_service's result; afterwards doaction is ACTION_IGNORE and the
\* token is released.  A call on a service without pending action, a second
\* call in the same cycle included, returns false, calls and posts nothing
\* and leaves the monitoring mode and the visit mark as they were.
C16_ScheduledAction ==
    \A i \in 1..Len(servicelist) :
        LET ctl == CallsOf(i, "control_service")
            dsa == ScheduledCalls(i)
        IN  /\ Len(ctl) <= 1
            /\ Len(KindOf(i, "Action")) = Len(ctl)
            /\ \A n \in 1..Len(KindOf(i, "Action")) :
                  KindOf(i, "Action")[n].state = "CHANGED"
            /\ ctl # <<>>
               => /\ ctl[1].arg # "ACTION_IGNORE"
                  /\ dsa # <<>>
                  /\ dsa[1].rv = ctl[1].rv
            /\ ctl = <<>> => \A n \in 1..Len(dsa) : ~dsa[n].rv
            /\ dsa # <<>>
               => /\ servicelist[i].doaction = "ACTION_IGNORE"
                  /\ servicelist[i].token = NULL
            /\ Len(dsa) = 2
               => /\ ~dsa[2].rv
                  /\ dsa[2].monitor = dsa[1].monitor
                  /\ dsa[2].visited = dsa[1].visited

\* A pending action on which control_service failed: the Action event is
\* posted all the same, and the second call of the cycle has done nothing.
C16_Witness ==
    \E i \in 1..Len(servicelist) :
        /\ CallsOf(i, "control_service") # <<>>
        /\ ~CallsOf(i, "control_service")[1].rv
        /\ Len(KindOf(i, "Action")) = 1
        /\ Len(ScheduledCalls(i)) = 2
        /\ servicelist[i].token = NULL

\* C17: Run.stopped set while the main loop is at a service: the step that
\* sets it takes nothing back of what the validator did, the body of the loop
\* for that service is complete (its collection time is taken), and the only
\* step validate() takes afterwards is the return through reset_depend():
\* no call and no event is added for any later service, the error count is
\* the one returned, and every visit mark is cleared.
C17_StopEndsLoop ==
    [][/\ (~Run.stopped /\ Run'.stopped)
          => /\ UNCHANGED <<servicelist, calls, events, errors, idx>>
             /\ (idx > 1 /\ Invoked(idx - 1))
                => servicelist[idx - 1].collected = now
       /\ Run.stopped
          => /\ pc = "loop" /\ pc' = "idle"
             /\ UNCHANGED <<calls, events, errors, idx, Run>>
             /\ returned' = errors
             /\ \A i \in 1..Len(servicelist) :
                   servicelist'[i] = [servicelist[i] EXCEPT !.visited = FALSE]]_vars

\* A list of two services stopped after the first one's validator: validate()
\* has returned, the second service was not touched by the main loop.
C17_Witness ==
    /\ Run.stopped
    /\ pc = "idle"
    /\ Len(servicelist) = 2
    /\ idx = 2
    /\ Invoked(1)
    /\ CallsOf(2, "do_scheduled_action") = <<>>
    /\ servicelist[2].doaction # "ACTION_IGNORE"

\* The place in the trace of the one call of fn on service i.
CallAt(i, fn) == CHOOSE p \in 1..Len(calls) : calls[p].svc = i /\ calls[p].fn = fn

\* What C18 says of a child found running: killed exactly past the timeout,
\* then waited for, its status saved and every rule evaluated on it, the
\* handle released and Command_execute called, in this order.
ProgramKilled(i) ==
    LET s == servicelist[i]
        asked == CallsOf(i, "Process_exitStatus")[1]
        status == KindOf(i, "Status")
    IN  IF asked.arg > s.program.timeout
        THEN /\ \A fn \in {"Process_kill", "Process_waitFor", "Process_free",
                            "Command_execute"} : Len(CallsOf(i, fn)) = 1
             /\ CallAt(i, "Process_kill") < CallAt(i, "Process_waitFor")
             /\ CallAt(i, "Process_waitFor") < CallAt(i, "Process_free")
             /\ CallAt(i, "Process_free") < CallAt(i, "Command_execute")
             /\ s.program.exitStatus = 9
             /\ Len(status) = Len(s.statuslist) + 1
             /\ \A n \in 1..Len(s.statuslist) :
                   /\ status[n].action = s.statuslist[n].action
                   /\ status[n].state =
                        IF Util_evalQExpression(s.statuslist[n].operator,
                                                s.program.exitStatus,
                                                s.statuslist[n].return_value)
                        THEN "FAILED" ELSE "SUCCEEDED"
        ELSE /\ \A fn \in {"Process_kill", "Process_waitFor", "Process_free",
                            "Command_execute"} : CallsOf(i, fn) = <<>>
             /\ status = <<>>
             /\ s.program.P # NULL
             /\ s.program.started = now - asked.arg
             /\ Returned(i)

\* C18: a child found running is killed exactly when now - started exceeds
\* the timeout, and then dealt with as in ProgramKilled; when Command_execute
\* succeeds the new child's start time is now, when it fails a Status FAILED
\* event is posted, no child is left and the start time is not touched.
C18_ProgramTimeout ==
    \A i \in Visited :
        LET s == servicelist[i]
            asked == CallsOf(i, "Process_exitStatus")
            exec == CallsOf(i, "Command_execute")
            status == KindOf(i, "Status")
        IN  (s.type = "TYPE_PROGRAM" /\ asked # <<>> /\ asked[1].rv < 0)
            => /\ ProgramKilled(i)
               /\ exec # <<>>
                  => IF exec[1].rv
                     THEN /\ s.program.P # NULL
                          /\ s.program.started = now
                          /\ status[Len(status)].state = "SUCCEEDED"
                     ELSE /\ s.program.P = NULL
                          /\ s.program.started = now - asked[1].arg
                          /\ status[Len(status)].state = "FAILED"
                          /\ status[Len(status)].action = s.action_EXEC

\* A child of timeout 1 found running after 2 seconds: it was killed and a
\* new child runs since now.
C18_Witness ==
    \E i \in Visited :
        /\ servicelist[i].type = "TYPE_PROGRAM"
        /\ servicelist[i].program.timeout = 1
        /\ CallsOf(i, "Process_exitStatus") # <<>>
        /\ CallsOf(i, "Process_exitStatus")[1].rv < 0
        /\ CallsOf(i, "Process_exitStatus")[1].arg = 2
        /\ CallsOf(i, "Process_kill") # <<>>
        /\ servicelist[i].program.P # NULL
        /\ servicelist[i].program.started = now

\* C18 as the specification words it: past the timeout a new child is
\* spawned with started = now.
C18_AlwaysSpawned ==
    \A i \in Visited :
        (/\ servicelist[i].type = "TYPE_PROGRAM"
         /\ CallsOf(i, "Process_exitStatus") # <<>>
         /\ CallsOf(i, "Process_exitStatus")[1].rv < 0
         /\ CallsOf(i, "Process_exitStatus")[1].arg
               > servicelist[i].program.timeout)
        => /\ servicelist[i].program.P # NULL
           /\ servicelist[i].program.started = now

\* The read position check_match on service i started the reads from: 0 after
\* the reset of lines 1139-1144, else the position it was entered with.
ReadStart(i) ==
    LET file == servicelist[i].inf.file
        entry == CallsOf(i, "fopen")[1].arg
    IN  IF \/ Str_startsWith_proc(servicelist[i].path)
           \/ file.st_ino # file.st_ino_prev
           \/ entry > file.st_size
        THEN 0 ELSE entry

\* C19: check_match that cannot open the file leaves readpos alone.
\* Otherwise readpos is first put back to 0 for a path under /proc, a changed
\* inode or a readpos beyond the size stat reported, and from there it never
\* decreases: every line handed to the patterns starts at the readpos of
\* that moment and moves it forward, and a readpos that was moved is at most
\* the size of the file as read.  So readpos at return is within the file as
\* read whenever that file is not shorter than what stat reported.
C19_ReadposBounds ==
    \A i \in Visited :
        LET open == CallsOf(i, "fopen")
            lines == CallsOf(i, "line")
            size == CallsOf(i, "fclose")[1].arg
            file == servicelist[i].inf.file
        IN  open # <<>>
            => IF ~open[1].rv
               THEN file.readpos = open[1].arg /\ lines = <<>>
               ELSE /\ ReadStart(i) <= file.readpos
                    /\ lines = <<>> => file.readpos = ReadStart(i)
                    /\ lines # <<>>
                       => /\ lines[1].rv = ReadStart(i)
                          /\ \A n \in 1..(Len(lines) - 1) :
                                lines[n].rv + Len(lines[n].arg) < lines[n + 1].rv
                          /\ lines[Len(lines)].rv < file.readpos
                          /\ file.readpos <= size
                    /\ size >= file.st_size \/ Str_startsWith_proc(servicelist[i].path)
                       => file.readpos <= size

\* A file replaced between two cycles and appended to between the stat and
\* the reads: readpos went back to 0 and then over the lines of the new file.
C19_Witness ==
    \E i \in Visited :
        /\ CallsOf(i, "fopen") # <<>>
        /\ CallsOf(i, "fopen")[1].rv
        /\ CallsOf(i, "fopen")[1].arg > 0
        /\ ReadStart(i) = 0
        /\ ~Str_startsWith_proc(servicelist[i].path)
        /\ CallsOf(i, "line") # <<>>
        /\ CallsOf(i, "fclose")[1].arg > servicelist[i].inf.file.st_size
        /\ servicelist[i].inf.file.readpos > 0

\* C19 as the specification words it: readpos at return is not below the
\* readpos at entry and not beyond the size of the file.
C19_NeverBack ==
    \A i \in Visited :
        (CallsOf(i, "fopen") # <<>> /\ CallsOf(i, "fopen")[1].rv)
        => /\ CallsOf(i, "fopen")[1].arg <= servicelist[i].inf.file.readpos
           /\ servicelist[i].inf.file.readpos <= CallsOf(i, "fclose")[1].arg

\* The message of the Content event for a log of the one line.
LoggedOnce(line) ==
    "content match:\n" \o Str(line) \o "\n"
       \o (IF Len(line) + 1 >= MATCH_LINE_LENGTH THEN "...\n" ELSE "")

\* C20: a file of one newline-terminated line of 511, 512 or 600 bytes read
\* from position 0: readpos is advanced by the full length of the line, the
\* patterns see one line, the first 511 bytes at most with the newline
\* stripped off; the descriptor whose pattern lies in that prefix posts one
\* Content CHANGED event whose log holds the line once (followed by the
\* mark "..." when the log has reached 512 bytes), and a pattern that occurs
\* past byte 511 only does not match.
C20_LongLine ==
    \A i \in Visited :
        LET file == servicelist[i].inf.file
            lines == CallsOf(i, "line")
            content == KindOf(i, "Content")
            seen == SubSeq(LongLine(file.st_size), 1,
                           Min(file.st_size - 1, MATCH_LINE_LENGTH - 1))
        IN  (/\ servicelist[i].path = LongPath
             /\ lines # <<>>
             /\ lines[1].rv = 0)
            => /\ file.readpos = file.st_size
               /\ Len(lines) = 1
               /\ lines[1].arg = seen
               /\ Len(content) = 2
               /\ content[1].state = "CHANGED"
               /\ content[1].msg = LoggedOnce(seen)
               /\ content[2].state =
                     IF file.st_size > MATCH_LINE_LENGTH THEN "CHANGEDNOT"
                     ELSE "CHANGED"

\* The line of 600 bytes: readpos is 600, the patterns saw 511 bytes.
C20_Witness ==
    \E i \in Visited :
        /\ servicelist[i].path = LongPath
        /\ servicelist[i].inf.file.st_size = 600
        /\ CallsOf(i, "line") # <<>>
        /\ CallsOf(i, "line")[1].rv = 0
        /\ Len(CallsOf(i, "line")[1].arg) = 511
        /\ servicelist[i].inf.file.readpos = 600
        /\ KindOf(i, "Content")[1].state = "CHANGED"

\* The descriptors of list in changes-only mode, and the first of them.
ChangesOnly(list) == {k \in 1..Len(list) : list[k].test_changes}
FirstChangesOnly(list) ==
    CHOOSE k \in ChangesOnly(list) : \A j \in ChangesOnly(list) : k <= j

\* Whether the validator of service i posted an event of this kind and message.
Posted(i, id, msg) ==
    \E n \in 1..Len(KindOf(i, id)) : KindOf(i, id)[n].msg = msg

\* C21: after a cycle in which check_size ran, the first changes-only
\* descriptor of the size list holds the size observed, and after one in
\* which check_timestamp got the time, the first changes-only descriptor of
\* the timestamp list holds the timestamp observed; the changes-only
\* descriptors behind the first are never written (a size descriptor stays
\* uninitialized, a timestamp descriptor keeps the configured 0).  After a
\* cycle in which the checksum was computed, a changes-only checksum
\* descriptor of known type agrees with it on the compared prefix.
C21_ExpectedFollowsObserved ==
    \A i \in Visited :
        LET s == servicelist[i]
        IN  (s.type = "TYPE_FILE" /\ Invoked(i))
            => /\ (Posted(i, "Invalid", "is a regular file")
                   /\ ChangesOnly(s.sizelist) # {})
                  => /\ s.sizelist[FirstChangesOnly(s.sizelist)].initialized
                     /\ s.sizelist[FirstChangesOnly(s.sizelist)].size
                          = s.inf.file.st_size
               /\ \A k \in ChangesOnly(s.sizelist) :
                     k # FirstChangesOnly(s.sizelist)
                     => ~s.sizelist[k].initialized
               /\ (Posted(i, "Data", "actual system time obtained")
                   /\ ChangesOnly(s.timestamplist) # {})
                  => s.timestamplist[FirstChangesOnly(s.timestamplist)].timestamp
                       = s.inf.timestamp
               /\ \A k \in ChangesOnly(s.timestamplist) :
                     k # FirstChangesOnly(s.timestamplist)
                     => s.timestamplist[k].timestamp = 0
               /\ (/\ Posted(i, "Data", "checksum computed")
                   /\ s.checksum # NULL
                   /\ s.checksum[1].test_changes
                   /\ HashLength(s.checksum[1].type) # 0)
                  => HashPrefix(s.checksum[1].hash, HashLength(s.checksum[1].type))
                       = HashPrefix(s.inf.file.cs_sum,
                                    HashLength(s.checksum[1].type))

\* A size list with two changes-only descriptors in a cycle that found the
\* size changed: the first descriptor holds the new size, the second was
\* never initialized.
C21_Witness ==
    \E i \in Visited :
        LET s == servicelist[i]
        IN  /\ s.type = "TYPE_FILE"
            /\ Cardinality(ChangesOnly(s.sizelist)) = 2
            /\ \E n \in 1..Len(KindOf(i, "Size")) :
                  KindOf(i, "Size")[n].state = "CHANGED"
            /\ s.sizelist[FirstChangesOnly(s.sizelist)].size = s.inf.file.st_size
            /\ s.inf.file.st_size > 0
            /\ \E k \in ChangesOnly(s.sizelist) : ~s.sizelist[k].initialized

\* C21 as the specification words it: every changes-only descriptor of the
\* size and timestamp lists holds the value observed in the cycle.
C21_EveryDescriptor ==
    \A i \in Visited :
        LET s == servicelist[i]
        IN  (s.type = "TYPE_FILE" /\ Invoked(i))
            => /\ Posted(i, "Invalid", "is a regular file")
                  => \A k \in ChangesOnly(s.sizelist) :
                        s.sizelist[k].size = s.inf.file.st_size
               /\ Posted(i, "Data", "actual system time obtained")
                  => \A k \in ChangesOnly(s.timestamplist) :
                        s.timestamplist[k].timestamp = s.inf.timestamp

\* The events of this kind that the step in progress adds for service i.
Adds(i, id) ==
    SelectSeq(events', LAMBDA e : e.svc = i /\ e.id = id)

\* C22: a cycle of a File service in which the digest of a changes-only
\* checksum descriptor of known type is computed.  If the descriptor is not
\* initialized, the digest is stored as the expected one.  Then one Checksum
\* event is posted: CHANGED, with the digest stored in place of the expected
\* one, if the two differ on the compared prefix, and CHANGEDNOT with the
\* expected one kept otherwise.  So a change of content is reported CHANGED
\* in the first cycle that computes the new digest and CHANGEDNOT after it.
C22_ChecksumChanges ==
    [][LET s == servicelist[idx]
           cs == s.checksum[1]
           after == servicelist'[idx]
           n == HashLength(cs.type)
           expected == IF cs.initialized THEN cs.hash ELSE after.inf.file.cs_sum
       IN  (/\ pc = "loop" /\ idx' = idx + 1
            /\ s.type = "TYPE_FILE" /\ s.checksum # NULL
            /\ cs.test_changes /\ n # 0
            /\ \E k \in 1..Len(Adds(idx, "Data")) :
                  Adds(idx, "Data")[k].msg = "checksum computed")
           => /\ after.checksum[1].initialized
              /\ after.checksum[1].hash = after.inf.file.cs_sum
                 \/ (/\ after.checksum[1].hash = expected
                     /\ HashPrefix(expected, n)
                          = HashPrefix(after.inf.file.cs_sum, n))
              /\ Len(Adds(idx, "Checksum")) = 1
              /\ Adds(idx, "Checksum")[1].state =
                    IF HashPrefix(expected, n) # HashPrefix(after.inf.file.cs_sum, n)
                    THEN "CHANGED" ELSE "CHANGEDNOT"
              /\ Adds(idx, "Checksum")[1].state = "CHANGED"
                 => after.checksum[1].hash = after.inf.file.cs_sum]_vars

\* The third cycle of a File service under a changes-only SHA1 checksum: the
\* digest is not the one the first cycle stored, a CHANGED event is posted
\* and the new digest is the expected one.
C22_Witness ==
    \E i \in Visited :
        LET s == servicelist[i]
        IN  /\ cycle = MaxCycles - 1
            /\ Len(servicelist) = 1
            /\ s.checksum # NULL
            /\ s.checksum[1].test_changes
            /\ s.perm = NULL
            /\ Len(KindOf(i, "Checksum")) = 1
            /\ KindOf(i, "Checksum")[1].state = "CHANGED"
            /\ s.checksum[1].hash = s.inf.file.cs_sum

\* The Checksum, Size and Timestamp events of service i in a sequence of
\* events, as pairs of kind and state.
Tests(seq, i) ==
    LET of == SelectSeq(seq, LAMBDA e : e.svc = i /\ e.id \in {"Checksum", "Size",
                                                             "Timestamp"})
    IN  [n \in 1..Len(of) |-> <<of[n].id, of[n].state>>]

\* The tests of a sequence of pairs that are not constant-value timestamp
\* tests.
Ageless(tests) ==
    SelectSeq(tests, LAMBDA t : ~(t[1] = "Timestamp"
                                  /\ t[2] \in {"SUCCEEDED", "FAILED"}))

\* Whether seq holds an event of service i of this kind and message.
Holds(seq, i, id, msg) ==
    \E n \in 1..Len(seq) : seq[n].svc = i /\ seq[n].id = id /\ seq[n].msg = msg

\* Whether the step in progress is the cycle of a File service that finds
\* the file as the cycle before found it: a regular file of the same size,
\* inode, timestamp and digest, with the probes answering in both cycles.
SameFile ==
    LET s == servicelist[idx]
        after == servicelist'[idx]
    IN  /\ pc = "loop" /\ idx' = idx + 1
        /\ s.type = "TYPE_FILE"
        /\ Holds(previous, idx, "Invalid", "is a regular file")
        /\ Holds(events', idx, "Invalid", "is a regular file")
        /\ after.inf.file.st_size = s.inf.file.st_size
        /\ after.inf.file.st_ino = s.inf.file.st_ino
        /\ after.inf.timestamp = s.inf.timestamp
        /\ s.checksum # NULL
           => /\ Holds(previous, idx, "Data", "checksum computed")
              /\ Holds(events', idx, "Data", "checksum computed")
              /\ after.inf.file.cs_sum = s.inf.file.cs_sum
        /\ s.timestamplist # <<>>
           => /\ Holds(previous, idx, "Data", "actual system time obtained")
              /\ Holds(events', idx, "Data", "actual system time obtained")

\* C23: a cycle of a File service that finds the file as the cycle before
\* found it reports no change: none of its Checksum, Size and Timestamp
\* events is CHANGED.  Its constant-value checksum and size tests post what
\* they posted the cycle before, SUCCEEDED or FAILED.  If the cycle before
\* reported no change either and posted as many Size events, the events of
\* the two cycles are the same but for the constant-value timestamp tests,
\* which compare the age now - timestamp and follow the clock.
C23_UnchangedFile ==
    [][SameFile
       => LET was == Tests(previous, idx)
              is == Tests(events', idx)
              Constant(tests) ==
                  SelectSeq(tests, LAMBDA t : /\ t[1] \in {"Checksum", "Size"}
                                              /\ t[2] \in {"SUCCEEDED", "FAILED"})
              Sizes(tests) == SelectSeq(tests, LAMBDA t : t[1] = "Size")
              s == servicelist'[idx]
          IN  /\ \A n \in 1..Len(is) : is[n][2] # "CHANGED"
              /\ Constant(is) = Constant(was)
              /\ (/\ \A n \in 1..Len(was) : was[n][2] # "CHANGED"
                  /\ Len(Sizes(was)) = Len(Sizes(is)))
                 => Ageless(is) = Ageless(was)
              /\ \A k \in 1..Len(s.timestamplist) :
                    (\A j \in 1..k : ~s.timestamplist[j].test_changes)
                    => Adds(idx, "Timestamp")[k].state =
                         IF Util_evalQExpression(s.timestamplist[k].operator,
                                                 now - s.inf.timestamp,
                                                 s.timestamplist[k].time)
                         THEN "FAILED" ELSE "SUCCEEDED"]_vars

\* A File service under a changes-only checksum and size test whose second
\* and third cycle find the same file: both cycles post Checksum CHANGEDNOT
\* and Size CHANGEDNOT.
C23_Witness ==
    \E i \in Visited :
        /\ servicelist[i].type = "TYPE_FILE"
        /\ Tests(events, i) = Tests(previous, i)
        /\ \E n \in 1..Len(Tests(events, i)) :
              Tests(events, i)[n] = <<"Checksum", "CHANGEDNOT">>
        /\ \E n \in 1..Len(Tests(events, i)) :
              Tests(events, i)[n] = <<"Size", "CHANGEDNOT">>

\* C23 as the specification words it: a cycle that finds the file as the
\* cycle before found it posts the Checksum, Size and Timestamp events of
\* the cycle before, all of them CHANGEDNOT or SUCCEEDED.
C23_SameEvents ==
    [][SameFile
       => /\ Tests(events', idx) = Tests(previous, idx)
          /\ \A n \in 1..Len(Tests(events', idx)) :
                Tests(events', idx)[n][2] \in {"CHANGEDNOT", "SUCCEEDED"}]_vars

\* The calls of fn that the step in progress makes for service i.
Makes(i, fn) ==
    SelectSeq(calls', LAMBDA k : k.svc = i /\ k.fn = fn)

\* The one event of kind id that the step in progress adds for service i is
\* CHANGED if was differs from is, and CHANGEDNOT (or, if quiet, no event at
\* all) if they are equal; no event is added while was is -1.
ReportsChange(i, id, was, is, quiet) ==
    IF was = -1 \/ (quiet /\ was = is) THEN Adds(i, id) = <<>>
    ELSE /\ Len(Adds(i, id)) = 1
         /\ Adds(i, id)[1].state = IF was # is THEN "CHANGED" ELSE "CHANGEDNOT"

\* C24: a cycle of a Process service whose process data were updated keeps
\* the pid and ppid of the cycle before as _pid and _ppid; it posts no Pid
\* event while _pid is -1 and no PPid event while _ppid is -1, and otherwise
\* one event each, CHANGED iff the previous value differs from the current
\* one and CHANGEDNOT if not.  A cycle of a Filesystem service whose usage
\* was read keeps the flags of the cycle before as _flags and posts one
\* Fsflag event, CHANGED, iff _flags is not -1 and differs from flags.
C24_PreviousValues ==
    [][LET s == servicelist[idx]
           after == servicelist'[idx]
       IN  pc = "loop" /\ idx' = idx + 1
           => /\ (/\ s.type = "TYPE_PROCESS"
                  /\ Makes(idx, "update_process_data") # <<>>
                  /\ Makes(idx, "update_process_data")[1].rv)
                 => /\ after.inf.process._pid = s.inf.process.pid
                    /\ after.inf.process._ppid = s.inf.process.ppid
                    /\ ReportsChange(idx, "Pid", after.inf.process._pid,
                                     after.inf.process.pid, FALSE)
                    /\ ReportsChange(idx, "PPid", after.inf.process._ppid,
                                     after.inf.process.ppid, FALSE)
              /\ (/\ s.type = "TYPE_FILESYSTEM"
                  /\ \E k \in 1..Len(Adds(idx, "Data")) :
                        Adds(idx, "Data")[k].state = "SUCCEEDED")
                 => /\ after.inf.filesystem._flags = s.inf.filesystem.flags
                    /\ ReportsChange(idx, "Fsflag", after.inf.filesystem._flags,
                                     after.inf.filesystem.flags, TRUE)]_vars

\* The second cycle of a Process service: the pid is the one of the cycle
\* before and the parent is another, so Pid is CHANGEDNOT and PPid CHANGED.
C24_Witness ==
    \E i \in Visited :
        LET p == servicelist[i].inf.process
        IN  /\ servicelist[i].type = "TYPE_PROCESS"
            /\ p._pid # -1 /\ p._pid = p.pid
            /\ p._ppid # -1 /\ p._ppid # p.ppid
            /\ Len(KindOf(i, "Pid")) = 1
            /\ KindOf(i, "Pid")[1].state = "CHANGEDNOT"
            /\ Len(KindOf(i, "PPid")) = 1
            /\ KindOf(i, "PPid")[1].state = "CHANGED"

\* The events that the step in progress adds, in order.
Added == SubSeq(events', Len(events) + 1, Len(events'))

\* The calls that the step in progress makes from call number p on.
MadeFrom(p) == SubSeq(calls', p, Len(calls'))

\* C25: an invocation of check_process posts exactly one Nonexist event.
\* When Util_isProcessRunning returns 0 the event is FAILED, it is the last
\* event of the pass and the only one after check_timeout's, no probe
\* follows (no process data, no connection attempt), the validator returns
\* false and the pass counts one error.  When it returns a pid the event is
\* SUCCEEDED and the validator returns true.
C25_OneNonexist ==
    [][LET probe == Makes(idx, "Util_isProcessRunning")
           at == CHOOSE p \in 1..Len(calls') :
                    calls'[p].svc = idx /\ calls'[p].fn = "Util_isProcessRunning"
       IN  (pc = "loop" /\ idx' = idx + 1 /\ probe # <<>>)
           => /\ Len(probe) = 1
              /\ servicelist[idx].type = "TYPE_PROCESS"
              /\ Len(Adds(idx, "Nonexist")) = 1
              /\ IF probe[1].rv = 0
                 THEN /\ Added[Len(Added)].id = "Nonexist"
                      /\ Added[Len(Added)].state = "FAILED"
                      /\ \A n \in 1..(Len(Added) - 1) :
                            Added[n].id = "Timeout" /\ Added[n].state = "FAILED"
                      /\ Len(MadeFrom(at)) = 2
                      /\ MadeFrom(at)[2].fn = "check"
                      /\ ~MadeFrom(at)[2].rv
                      /\ servicelist'[idx].inf = servicelist[idx].inf
                      /\ errors' = errors + 1
                 ELSE /\ Adds(idx, "Nonexist")[1].state = "SUCCEEDED"
                      /\ Makes(idx, "check")[1].rv
                      /\ errors' = errors]_vars

\* A process that was not running in the cycle before is found running:
\* Nonexist FAILED then, Nonexist SUCCEEDED now.
C25_Witness ==
    \E i \in Visited :
        /\ servicelist[i].type = "TYPE_PROCESS"
        /\ \E n \in 1..Len(previous) :
              /\ previous[n].svc = i
              /\ previous[n].id = "Nonexist"
              /\ previous[n].state = "FAILED"
        /\ Len(KindOf(i, "Nonexist")) = 1
        /\ KindOf(i, "Nonexist")[1].state = "SUCCEEDED"
        /\ CallsOf(i, "Util_isProcessRunning")[1].rv # 0

\* The states of the Resource events the claim C26 expects of the rules from
\* number k on, on the statistics fs: none of an inode rule when f_files is
\* not positive, none of a rule without limit, else FAILED iff the operator
\* holds of the value (the percentage if that limit is set) and the limit.
RECURSIVE RuleStates(_, _, _)
RuleStates(list, fs, k) ==
    IF k > Len(list) THEN <<>>
    ELSE LET td == list[k]
             inode == td.resource = "RESOURCE_ID_INODE"
             value == IF td.limit_percent >= 0
                      THEN IF inode THEN fs.inode_percent ELSE fs.space_percent
                      ELSE IF inode THEN fs.inode_total ELSE fs.space_total
             limit == IF td.limit_percent >= 0 THEN td.limit_percent
                      ELSE td.limit_absolute
         IN  (IF (td.limit_percent < 0 /\ td.limit_absolute < 0)
                 \/ (inode /\ fs.f_files <= 0)
              THEN <<>>
              ELSE IF Util_evalQExpression(td.operator, value, limit)
              THEN <<"FAILED">> ELSE <<"SUCCEEDED">>)
             \o RuleStates(list, fs, k + 1)

\* C26: in a cycle of a Filesystem service whose usage was read, an inode
\* rule posts no event when the filesystem reports f_files <= 0, and every
\* space rule with a limit posts one Resource event in the same cycle, FAILED
\* iff the operator holds of the usage and the limit and SUCCEEDED if not;
\* the Resource events come in rule order.
C26_InodesUnsupported ==
    [][LET s == servicelist[idx]
           fs == servicelist'[idx].inf.filesystem
           got == Adds(idx, "Resource")
       IN  (/\ pc = "loop" /\ idx' = idx + 1
            /\ s.type = "TYPE_FILESYSTEM"
            /\ \E k \in 1..Len(Adds(idx, "Data")) :
                  Adds(idx, "Data")[k].state = "SUCCEEDED")
           => /\ fs.space_total = fs.f_blocks - fs.f_blocksfreetotal
              /\ fs.space_percent = Permille(fs.f_blocks - fs.f_blocksfree,
                                             fs.f_blocks)
              /\ [n \in 1..Len(got) |-> got[n].state]
                    = RuleStates(s.filesystemlist, fs, 1)]_vars

\* A filesystem without inodes under an inode rule and a space rule: the one
\* Resource event of the cycle is the space rule's, here FAILED.
C26_Witness ==
    \E i \in Visited :
        LET s == servicelist[i]
        IN  /\ s.type = "TYPE_FILESYSTEM"
            /\ s.inf.filesystem.f_files <= 0
            /\ \E k \in 1..Len(s.filesystemlist) :
                  /\ s.filesystemlist[k].resource = "RESOURCE_ID_INODE"
                  /\ s.filesystemlist[k].limit_percent >= 0
            /\ \E n \in 1..Len(KindOf(i, "Data")) :
                  KindOf(i, "Data")[n].state = "SUCCEEDED"
            /\ Len(KindOf(i, "Resource")) = 1
            /\ KindOf(i, "Resource")[1].state = "FAILED"
            /\ KindOf(i, "Resource")[1].msg = "space usage matches resource limit"

\* C27: over an empty service list every step of validate() leaves the list
\* empty, posts no event, makes no call (no do_scheduled_action, check_skip,
\* check_timeout, validator or control_service), never enters the body of
\* the main loop, counts no error and returns 0.
C27_EmptyList ==
    [][servicelist = <<>>
       => /\ servicelist' = <<>>
          /\ events' = <<>>
          /\ calls' = <<>>
          /\ idx' = 1
          /\ errors' = 0
          /\ returned' = 0
          /\ startError' = <<>>]_vars

\* Two cycles over the empty service list have run to their end.
C27_Witness ==
    /\ servicelist = <<>>
    /\ pc = "idle"
    /\ cycle = MaxCycles
    /\ ~Run.doaction
    /\ events = <<>>
    /\ calls = <<>>
    /\ returned = 0

\* The states of the Resource events the claim C28 expects of the cpu rules
\* from number k on of service s: none of a rule whose test is skipped, else
\* FAILED iff the operator holds of the sample and the limit.
RECURSIVE CpuStates(_, _, _)
CpuStates(s, sys, k) ==
    IF k > Len(s.resourcelist) THEN <<>>
    ELSE LET r == s.resourcelist[k]
         IN  (IF ResourceSkipped(s, sys, r.resource_id) THEN <<>>
              ELSE IF Util_evalQExpression(r.operator,
                         ResourceSample(s, sys, r.resource_id), r.limit)
              THEN <<"FAILED">> ELSE <<"SUCCEEDED">>)
             \o CpuStates(s, sys, k + 1)

\* Whether every resource rule of service s is of a cpu type.
CpuOnly(s) ==
    /\ s.resourcelist # <<>>
    /\ \A k \in 1..Len(s.resourcelist) :
          s.resourcelist[k].resource_id \in CpuResources

\* C28: in a cycle of a Process service under cpu rules only whose process
\* data were updated, a cpu rule posts no Resource event while MONITOR_INIT
\* is set or its sample is negative, and one Resource event otherwise, FAILED
\* iff the operator holds of the sample and the limit, SUCCEEDED if not.
C28_CpuSkipped ==
    [][LET s == servicelist[idx]
           after == [servicelist'[idx] EXCEPT !.monitor = s.monitor]
           got == Adds(idx, "Resource")
       IN  (/\ pc = "loop" /\ idx' = idx + 1
            /\ s.type = "TYPE_PROCESS" /\ CpuOnly(s)
            /\ Makes(idx, "update_process_data") # <<>>
            /\ Makes(idx, "update_process_data")[1].rv)
           => [n \in 1..Len(got) |-> got[n].state]
                 = CpuStates(after, systeminfo, 1)]_vars

\* A Process service under two cpu rules, monitored for a cycle already: the
\* cpu sample is negative, the total is over the limit, and the cycle holds
\* two Resource events, a SUCCEEDED one without text and a FAILED one.
C28_Witness ==
    \E i \in Visited :
        LET s == servicelist[i]
        IN  /\ s.type = "TYPE_PROCESS" /\ CpuOnly(s)
            /\ cycle = MaxCycles - 1
            /\ s.inf.process.cpu_percent < 0
            /\ Len(KindOf(i, "Resource")) = 2
            /\ KindOf(i, "Resource")[1].state = "SUCCEEDED"
            /\ KindOf(i, "Resource")[1].msg = ""
            /\ KindOf(i, "Resource")[2].state = "FAILED"

\* The Timeout events in state FAILED posted for service i since the cycle
\* began, in order.
TimeoutsOf(i) ==
    SelectSeq(events, LAMBDA e : e.svc = i /\ e.id = "Timeout"
                                 /\ e.state = "FAILED")

\* C29: check_timeout on a service with action-rate rules counts the cycle
\* first, when nstart > 0, and then posts one Timeout FAILED event, with the
\* rule's action, for exactly the rules with nstart >= count and the counted
\* ncycle <= cycle, in rule order; a service on which check_timeout is not
\* called gets no such event.  So a rule whose count is reached is hit in
\* every checked cycle of its window and in none after it.
C29_TimeoutWindow ==
    \A i \in Visited :
        LET s == servicelist[i]
            t == CallsOf(i, "check_timeout")
            before == t[1].arg
            counted == IF before.nstart > 0 THEN before.ncycle + 1
                       ELSE before.ncycle
            hit == SelectSeq(s.actionratelist,
                             LAMBDA ar : /\ before.nstart >= ar.count
                                         /\ counted <= ar.cycle)
        IN  IF t = <<>> \/ s.actionratelist = <<>> THEN TimeoutsOf(i) = <<>>
            ELSE /\ Len(t) = 1
                 /\ [n \in 1..Len(TimeoutsOf(i)) |-> TimeoutsOf(i)[n].action]
                       = [n \in 1..Len(hit) |-> hit[n].action]
                 /\ s.ncycle \in {counted, 0}

\* A service restarted twice under a rule of two restarts within two cycles,
\* in its second counted cycle: the rule is hit again.
C29_Witness ==
    \E i \in Visited :
        /\ servicelist[i].actionratelist = <<ActionRate(2, 2, "ACTION_ALERT")>>
        /\ CallsOf(i, "check_timeout") # <<>>
        /\ CallsOf(i, "check_timeout")[1].arg = [nstart |-> 2, ncycle |-> 1]
        /\ Len(TimeoutsOf(i)) = 1
        /\ servicelist[i].ncycle = 2

\* C30: an invocation of check_program that finds the child of an earlier
\* cycle still running, with now - started not above the timeout, returns
\* true and does nothing else: the pass posts no event (no status rule is
\* evaluated, nothing is spawned), the child is neither killed, waited for
\* nor freed, Command_execute is not called, and the handle, the start time
\* and the saved exit status are the ones of before.
C30_ProgramDeferred ==
    [][LET s == servicelist[idx]
           after == servicelist'[idx]
           asked == Makes(idx, "Process_exitStatus")
       IN  (/\ pc = "loop" /\ idx' = idx + 1
            /\ asked # <<>>
            /\ asked[1].rv < 0
            /\ asked[1].arg <= s.program.timeout)
           => /\ s.type = "TYPE_PROGRAM" /\ s.program.P # NULL
              /\ asked[1].arg = now - s.program.started
              /\ Added = <<>>
              /\ after.program = s.program
              /\ after.error = s.error
              /\ Makes(idx, "Process_kill") = <<>>
              /\ Makes(idx, "Process_waitFor") = <<>>
              /\ Makes(idx, "Process_free") = <<>>
              /\ Makes(idx, "Command_execute") = <<>>
              /\ Len(Makes(idx, "check")) = 1
              /\ Makes(idx, "check")[1].rv
              /\ calls'[Len(calls')].fn = "check"
              /\ calls'[Len(calls') - 1].fn = "Process_exitStatus"
              /\ errors' = errors]_vars

\* A program started in the cycle before, with a timeout of 5, is found
\* running one second later: no event, the handle and start time kept.
C30_Witness ==
    \E i \in Visited :
        LET s == servicelist[i]
        IN  /\ s.type = "TYPE_PROGRAM"
            /\ s.program.timeout = 5
            /\ s.program.P # NULL
            /\ s.program.started = now - 1
            /\ CallsOf(i, "Process_exitStatus") # <<>>
            /\ CallsOf(i, "Process_exitStatus")[1].rv < 0
            /\ CallsOf(i, "Process_exitStatus")[1].arg = 1
            /\ EventsOf(i) = <<>>
            /\ Returned(i)

\* C31: an invocation of check_program that reaches Command_execute ends
\* with one more Status event, bound to the exec action, and returns true.
\* When the spawn fails the event is FAILED, no child handle is held and
\* started keeps its value; when it succeeds the event is SUCCEEDED, a handle
\* is held and started = now.  An invocation entered without a child handle
\* (the first one, or the one after a failed spawn) asks for no exit status,
\* evaluates no status rule and posts the spawn's event only.
C31_SpawnOutcome ==
    [][LET s == servicelist[idx]
           after == servicelist'[idx]
           exec == Makes(idx, "Command_execute")
           last == Added[Len(Added)]
       IN  (pc = "loop" /\ idx' = idx + 1 /\ s.type = "TYPE_PROGRAM"
            /\ Makes(idx, "check") # <<>>)
           => /\ Makes(idx, "check")[1].rv
              /\ errors' = errors
              /\ Len(exec) <= 1
              /\ s.program.P = NULL
                 => /\ Len(exec) = 1
                    /\ Makes(idx, "Process_exitStatus") = <<>>
                    /\ Len(Added) = 1
                    /\ after.program.exitStatus = s.program.exitStatus
              /\ exec # <<>>
                 => /\ last.id = "Status"
                    /\ last.action = s.action_EXEC
                    /\ Len(Added) = 1 + (IF s.program.P = NULL THEN 0
                                         ELSE Len(s.statuslist))
                    /\ IF exec[1].rv
                       THEN /\ last.state = "SUCCEEDED"
                            /\ after.program.P # NULL
                            /\ after.program.started = now
                       ELSE /\ last.state = "FAILED"
                            /\ after.program.P = NULL
                            /\ after.program.started = s.program.started]_vars

\* The spawn failed in the cycle before and fails again: each cycle holds
\* the one Status FAILED event, no handle is held, started is still 0.
C31_Witness ==
    \E i \in Visited :
        LET s == servicelist[i]
        IN  /\ s.type = "TYPE_PROGRAM"
            /\ cycle = MaxCycles - 1
            /\ Len(SelectSeq(previous, LAMBDA e : e.svc = i)) = 1
            /\ previous[1].state = "FAILED"
            /\ CallsOf(i, "Process_exitStatus") = <<>>
            /\ CallsOf(i, "Command_execute") # <<>>
            /\ ~CallsOf(i, "Command_execute")[1].rv
            /\ Len(EventsOf(i)) = 1
            /\ EventsOf(i)[1].id = "Status"
            /\ EventsOf(i)[1].state = "FAILED"
            /\ s.program.P = NULL
            /\ s.program.started = 0
            /\ Returned(i)

\* The number of rules at the head of an icmp list that are of type echo.
RECURSIVE EchoPrefix(_)
EchoPrefix(icmps) ==
    IF icmps = <<>> \/ icmps[1].type # ICMP_ECHO THEN 0
    ELSE 1 + EchoPrefix(Tail(icmps))

\* The states of the Icmp events the claim C32 expects of a sequence of
\* icmp_echo calls: none of an answer -2, FAILED of -1, SUCCEEDED else.
RECURSIVE EchoStates(_)
EchoStates(echoes) ==
    IF echoes = <<>> THEN <<>>
    ELSE (IF echoes[1].rv = -2 THEN <<>>
          ELSE IF echoes[1].rv = -1 THEN <<"FAILED">> ELSE <<"SUCCEEDED">>)
         \o EchoStates(Tail(echoes))

\* C32: check_remote_host sends one ping for each echo rule in list order up
\* to the first rule of another type.  Each rule pinged keeps the answer; it
\* is available unless the answer is -1; the Icmp events of the cycle are, in
\* rule order, FAILED for each answer -1 and SUCCEEDED for each answer >= 0,
\* none for -2.  A rule of another type ends the validator at once: it
\* returns false, the rules after it are not pinged and keep their values,
\* and no port is probed.
C32_IcmpRules ==
    \A i \in Visited :
        LET s == servicelist[i]
            n == EchoPrefix(s.icmplist)
            got == KindOf(i, "Icmp")
        IN  (s.type = "TYPE_HOST" /\ Invoked(i))
            => /\ Len(Echoes(i)) = n
               /\ \A k \in 1..n :
                     /\ Echoes(i)[k].arg = k
                     /\ s.icmplist[k].response = Echoes(i)[k].rv
                     /\ s.icmplist[k].is_available = (Echoes(i)[k].rv # -1)
               /\ [k \in 1..Len(got) |-> got[k].state] = EchoStates(Echoes(i))
               /\ n < Len(s.icmplist)
                  => /\ ~Returned(i)
                     /\ \A k \in (n + 1)..Len(s.icmplist) :
                           /\ s.icmplist[k].response = 0
                           /\ ~s.icmplist[k].is_available
                     /\ CallsOf(i, "socket_create") = <<>>
                     /\ KindOf(i, "Connection") = <<>>

\* A host under an echo rule, a rule of another type and an echo rule: the
\* first was answered, the validator returned false on the second, the third
\* was not pinged and no port was probed.
C32_Witness ==
    \E i \in Visited :
        LET s == servicelist[i]
        IN  /\ s.type = "TYPE_HOST"
            /\ Len(s.icmplist) = 3
            /\ s.icmplist[2].type # ICMP_ECHO
            /\ s.icmplist[3].type = ICMP_ECHO
            /\ Invoked(i) /\ ~Returned(i)
            /\ Len(Echoes(i)) = 1
            /\ Echoes(i)[1].rv = 0
            /\ Len(KindOf(i, "Icmp")) = 1
            /\ KindOf(i, "Icmp")[1].state = "SUCCEEDED"
            /\ s.portlist # <<>>
            /\ CallsOf(i, "socket_create") = <<>>

\* The events of the step in progress from number p on.
AddedFrom(p) == SubSeq(Added, p, Len(Added))

\* C33: an invocation of check_process that finds the process running posts,
\* right after Nonexist SUCCEEDED, an Exec SUCCEEDED event iff the Exec bit
\* is set in s.error and then, iff the Timeout bit is set, one Timeout
\* SUCCEEDED event per action-rate rule with the rule's action, in list
\* order.  Every other event of the validator (process data, Pid, PPid,
\* Uptime, Resource, Connection) comes after them, and none of them is a
\* Nonexist, Exec or Timeout event.  Before Nonexist SUCCEEDED the pass holds
\* the Timeout FAILED events of check_timeout only.
C33_ClearingEvents ==
    [][LET s == servicelist[idx]
           probe == Makes(idx, "Util_isProcessRunning")
           raised == SelectSeq(Added, LAMBDA e : e.id = "Timeout"
                                                 /\ e.state = "FAILED")
           exec == IF "Exec" \in s.error THEN 1 ELSE 0
           rules == IF "Timeout" \in s.error \/ raised # <<>>
                    THEN Len(s.actionratelist) ELSE 0
           at == Len(raised) + 1
       IN  (pc = "loop" /\ idx' = idx + 1 /\ probe # <<>> /\ probe[1].rv # 0)
           => /\ Len(Added) >= at + exec + rules
              /\ \A n \in 1..Len(raised) : Added[n] = raised[n]
              /\ Added[at].id = "Nonexist" /\ Added[at].state = "SUCCEEDED"
              /\ exec = 1
                 => /\ Added[at + 1].id = "Exec"
                    /\ Added[at + 1].state = "SUCCEEDED"
                    /\ Added[at + 1].action = s.action_EXEC
              /\ \A k \in 1..rules :
                    /\ Added[at + exec + k].id = "Timeout"
                    /\ Added[at + exec + k].state = "SUCCEEDED"
                    /\ Added[at + exec + k].action = s.actionratelist[k].action
              /\ \A n \in (at + exec + rules + 1)..Len(Added) :
                    Added[n].id \in {"Data", "Pid", "PPid", "Uptime", "Resource",
                                     "Connection"}]_vars

\* A running process whose service entered the cycle with the Exec and
\* Timeout bits set under two action-rate rules: Nonexist, Exec and two
\* Timeout events, all SUCCEEDED, then the process data, resource and
\* connection events.
C33_Witness ==
    \E i \in Visited :
        LET ev == EventsOf(i)
        IN  /\ servicelist[i].type = "TYPE_PROCESS"
            /\ startError[i] = {"Exec", "Timeout"}
            /\ Len(servicelist[i].actionratelist) = 2
            /\ Len(ev) > 6
            /\ ev[1].id = "Nonexist" /\ ev[1].state = "SUCCEEDED"
            /\ ev[2].id = "Exec" /\ ev[2].state = "SUCCEEDED"
            /\ ev[3].id = "Timeout" /\ ev[3].action = "ACTION_ALERT"
            /\ ev[4].id = "Timeout" /\ ev[4].action = "ACTION_RESTART"
            /\ ev[5].id = "Data"
            /\ KindOf(i, "Resource") # <<>>
            /\ KindOf(i, "Connection") # <<>>

\* The lines check_match handed to the pattern lists for service i in this
\* cycle that no ignore entry hits and that descriptor k of the match list
\* hits, in reading order.
Wanted(i, k) ==
    LET s == servicelist[i]
        of == SelectSeq(CallsOf(i, "line"),
                        LAMBDA r : /\ ~\E g \in 1..Len(s.matchignorelist) :
                                         strstr(r.arg, s.matchignorelist[g].match_string)
                                            # s.matchignorelist[g].not
                                   /\ strstr(r.arg, s.matchlist[k].match_string)
                                         # s.matchlist[k].not)
    IN  [n \in 1..Len(of) |-> of[n].arg]

\* The lines of a sequence, each followed by a newline, one after the other.
RECURSIVE Joined(_)
Joined(lines) ==
    IF lines = <<>> THEN <<>>
    ELSE lines[1] \o <<"\n">> \o Joined(Tail(lines))

\* The lines of a sequence as a log keeps them: a line is added while the
\* log is shorter than MATCH_LINE_LENGTH, and the mark "..." follows the line
\* that takes it to that length.
RECURSIVE Kept(_, _)
Kept(lines, buf) ==
    IF lines = <<>> THEN buf
    ELSE Kept(Tail(lines),
              IF Len(buf) >= MATCH_LINE_LENGTH THEN buf
              ELSE IF Len(buf) + Len(lines[1]) + 1 >= MATCH_LINE_LENGTH
              THEN buf \o lines[1] \o <<"\n", ".", ".", ".", "\n">>
              ELSE buf \o lines[1] \o <<"\n">>)

\* C34: every line check_match reads moves readpos past it, whether an
\* ignore entry hits it or not.  The ignore list is evaluated first: a line
\* that an ignore entry hits (pattern matches XOR not) goes to no log.  A
\* line that no ignore entry hits goes to the log of every match descriptor
\* that hits it, as long as that log is shorter than MATCH_LINE_LENGTH
\* bytes; the Content event of the descriptor is CHANGED with the log as its
\* text iff there is such a line, and CHANGEDNOT otherwise.
C34_IgnoreFirst ==
    \A i \in Visited :
        LET s == servicelist[i]
            lines == CallsOf(i, "line")
            content == KindOf(i, "Content")
        IN  (CallsOf(i, "fopen") # <<>> /\ CallsOf(i, "fopen")[1].rv)
            => /\ Len(content) = Len(s.matchlist)
               /\ \A n \in 1..Len(lines) :
                     /\ n < Len(lines) => lines[n + 1].rv > lines[n].rv + Len(lines[n].arg)
                     /\ s.inf.file.readpos > lines[n].rv + Len(lines[n].arg)
               /\ \A k \in 1..Len(s.matchlist) :
                     IF Wanted(i, k) = <<>>
                     THEN content[k].state = "CHANGEDNOT"
                     ELSE /\ content[k].state = "CHANGED"
                          /\ content[k].msg = "content match:\n"
                                \o Str(Kept(Wanted(i, k), <<>>))

\* The log file read from its start: its third line, "qoo", is hit by the
\* ignore entry and is in neither log, although both descriptors hit it, and
\* readpos is past it.
C34_Witness ==
    \E i \in Visited :
        LET s == servicelist[i]
            lines == CallsOf(i, "line")
        IN  /\ s.path = LinesPath
            /\ Len(lines) = 3
            /\ lines[1].rv = 0
            /\ lines[3].arg = <<"q", "o", "o">>
            /\ s.inf.file.readpos = 11
            /\ KindOf(i, "Content")[1].msg = "content match:\noo\n"
            /\ KindOf(i, "Content")[2].msg = "content match:\noo\n"

\* C34 as the specification words it: every line that no ignore entry hits
\* is in the log of every match descriptor that hits it.
C34_EveryHitLogged ==
    \A i \in Visited :
        (CallsOf(i, "fopen") # <<>> /\ CallsOf(i, "fopen")[1].rv)
        => \A k \in 1..Len(servicelist[i].matchlist) :
              Wanted(i, k) # <<>>
              => KindOf(i, "Content")[k].msg
                    \in {"content match:\n" \o Str(Joined(Wanted(i, k)) \o tail) :
                            tail \in {<<>>, <<".", ".", ".", "\n">>}}

\* C35: a cycle in which check_match opens the file posts exactly one
\* Content event per match descriptor, in list order, however the reading
\* ends (nothing new to read, a failed seek, the end of the file, an
\* incomplete line): CHANGED iff a line read in this invocation that no
\* ignore entry hits hit the descriptor, with these lines as its text and
\* nothing of an earlier cycle, and CHANGEDNOT otherwise; the file is closed
\* once.  A cycle in which the file cannot be opened, or check_match is not
\* reached, posts no Content event.
C35_ContentEvents ==
    \A i \in Visited :
        LET s == servicelist[i]
            open == CallsOf(i, "fopen")
            content == KindOf(i, "Content")
        IN  IF open # <<>> /\ open[1].rv
            THEN /\ Len(open) = 1
                 /\ Len(CallsOf(i, "fclose")) = 1
                 /\ Len(CallsOf(i, "fseek")) <= 1
                 /\ Len(content) = Len(s.matchlist)
                 /\ \A k \in 1..Len(s.matchlist) :
                       /\ content[k].action = s.matchlist[k].action
                       /\ content[k].state = IF Wanted(i, k) # <<>> THEN "CHANGED"
                                             ELSE "CHANGEDNOT"
                       /\ content[k].msg =
                             IF Wanted(i, k) # <<>>
                             THEN "content match:\n" \o Str(Kept(Wanted(i, k), <<>>))
                             ELSE "content doesn't match"
            ELSE content = <<>> /\ CallsOf(i, "fclose") = <<>>

\* The second cycle on the log file: the first had posted Content CHANGED
\* for the line "oo"; now the line "baz", which neither descriptor hits, is
\* read and the next seek fails: both events are CHANGEDNOT, nothing of the
\* log of the cycle before is left.
C35_Witness ==
    \E i \in Visited :
        LET content == KindOf(i, "Content")
        IN  /\ servicelist[i].path = LinesPath
            /\ \E n \in 1..Len(previous) :
                  previous[n].id = "Content" /\ previous[n].msg = "content match:\noo\n"
            /\ CallsOf(i, "fseek") # <<>>
            /\ Len(CallsOf(i, "line")) = 1
            /\ CallsOf(i, "line")[1].arg = <<"b", "a", "z">>
            /\ Len(content) = 2
            /\ content[1].state = "CHANGEDNOT"
            /\ content[2].state = "CHANGEDNOT"

\* The content the reads of the step in progress find in the log file of
\* service i: the one of LineFiles of the length the record of fclose names.
ReadOf(i) ==
    CHOOSE d \in LineFiles : Len(d) = Makes(i, "fclose")[1].arg

\* The number of the last byte of data that a complete line read from
\* position pos on can end at: the last newline after pos, or pos.
LastNewline(data, pos) ==
    LET S == {n \in (pos + 1)..Len(data) : data[n] = "\n"}
    IN  IF S = {} THEN pos ELSE CHOOSE n \in S : \A m \in S : m <= n

WalkEnd(list) ==
    IF ChangesOnly(list) = {} THEN Len(list) ELSE FirstChangesOnly(list)

\* Whether the step in progress adds an event of this kind and message for
\* service i.
Posts(i, id, msg) ==
    \E n \in 1..Len(Adds(i, id)) : Adds(i, id)[n].msg = msg

\* C37: a cycle in which check_size or check_timestamp walks its list.  The
\* descriptors before the first in changes-only mode are evaluated, each
\* posting FAILED or SUCCEEDED by its comparison; the first in changes-only
\* mode is handled (a size descriptor not yet initialized posts nothing);
\* and the walk ends there: the descriptors behind it post no event and are
\* left as they were.
C37_WalkStops ==
    [][LET s == servicelist[idx]
           after == servicelist'[idx]
           sk == WalkEnd(s.sizelist)
           tk == WalkEnd(s.timestamplist)
           sizes == Adds(idx, "Size")
           stamps == Adds(idx, "Timestamp")
       IN  (pc = "loop" /\ idx' = idx + 1)
           => /\ (s.sizelist # <<>> /\ Posts(idx, "Invalid", "is a regular file"))
                 => /\ Len(sizes) = IF s.sizelist[sk].test_changes
                                       /\ ~s.sizelist[sk].initialized
                                    THEN sk - 1 ELSE sk
                    /\ \A k \in 1..(sk - 1) :
                          /\ sizes[k].state =
                               IF Util_evalQExpression(s.sizelist[k].operator,
                                                       after.inf.file.st_size,
                                                       s.sizelist[k].size)
                               THEN "FAILED" ELSE "SUCCEEDED"
                          /\ after.sizelist[k] = s.sizelist[k]
                    /\ s.sizelist[sk].test_changes
                       => /\ after.sizelist[sk].initialized
                          /\ after.sizelist[sk].size = after.inf.file.st_size
                          /\ s.sizelist[sk].initialized
                             => sizes[sk].state \in {"CHANGED", "CHANGEDNOT"}
                    /\ \A k \in (sk + 1)..Len(s.sizelist) :
                          after.sizelist[k] = s.sizelist[k]
              /\ (s.timestamplist # <<>>
                  /\ Posts(idx, "Data", "actual system time obtained"))
                 => /\ Len(stamps) = tk
                    /\ \A k \in 1..(tk - 1) :
                          /\ stamps[k].state =
                               IF Util_evalQExpression(
                                    s.timestamplist[k].operator,
                                    now - after.inf.timestamp,
                                    s.timestamplist[k].time)
                               THEN "FAILED" ELSE "SUCCEEDED"
                          /\ after.timestamplist[k] = s.timestamplist[k]
                    /\ s.timestamplist[tk].test_changes
                       => /\ after.timestamplist[tk].timestamp = after.inf.timestamp
                          /\ stamps[tk].state \in {"CHANGED", "CHANGEDNOT"}
                    /\ \A k \in (tk + 1)..Len(s.timestamplist) :
                          after.timestamplist[k] = s.timestamplist[k]]_vars

\* A size list of four descriptors, the second and the fourth in
\* changes-only mode, in a cycle that found the size changed: two Size
\* events, FAILED of the first descriptor and CHANGED of the second; the
\* third, a test against a constant, posted none, and the fourth is still
\* uninitialized.
C37_Witness ==
    \E i \in Visited :
        LET s == servicelist[i]
        IN  /\ s.type = "TYPE_FILE"
            /\ Len(s.sizelist) = 4
            /\ Len(KindOf(i, "Size")) = 2
            /\ KindOf(i, "Size")[1].state = "FAILED"
            /\ KindOf(i, "Size")[2].state = "CHANGED"
            /\ s.inf.file.st_size = 7
            /\ ~s.sizelist[4].initialized

\* The content of the log file of size n: the one of LineFiles of that
\* length; the file that has not been seen yet is empty.
DataOf(n) ==
    IF n = 0 THEN <<>> ELSE CHOOSE d \in LineFiles : Len(d) = n

\* Whether the sequence old is the head of the sequence data.
IsPrefix(old, data) ==
    Len(old) <= Len(data) /\ SubSeq(data, 1, Len(old)) = old

\* A cycle of the File service of LinesPath whose file has only been
\* appended to since the cycle before, entered with readpos at a line
\* boundary.  The lines evaluated are the complete lines from readpos on, one
\* after the other and each once; readpos is left at a line boundary behind
\* the last of them; and when the file is opened and the seeks succeed, no
\* complete line is left behind readpos.  anyByte: whether the cycles in
\* which the bytes behind readpos hold a zero byte are included.
LinesOnce(anyByte) ==
    LET s == servicelist[idx]
        p == s.inf.file.readpos
        old == DataOf(s.inf.file.st_size)
        r == servicelist'[idx].inf.file.readpos
        data == DataOf(servicelist'[idx].inf.file.st_size)
        lines == Makes(idx, "line")
        end == [n \in 1..Len(lines) |-> NextNewline(data, lines[n].rv + 1)]
    IN  (/\ pc = "loop" /\ idx' = idx + 1
         /\ s.path = LinesPath
         /\ IsPrefix(old, data)
         /\ p <= Len(old)
         /\ p = 0 \/ old[p] = "\n"
         /\ anyByte \/ \A n \in (p + 1)..Len(data) : data[n] # NUL)
        => /\ r = 0 \/ data[r] = "\n"
           /\ lines = <<>> => r = p
           /\ lines # <<>> => lines[1].rv = p /\ end[Len(lines)] = r
           /\ \A n \in 1..Len(lines) :
                 /\ end[n] # 0
                 /\ lines[n].arg =
                      SubSeq(data, lines[n].rv + 1,
                             Min(end[n] - 1, lines[n].rv + MATCH_LINE_LENGTH - 1))
                 /\ n < Len(lines) => lines[n + 1].rv = end[n]
           /\ (/\ Makes(idx, "fopen") # <<>> /\ Makes(idx, "fopen")[1].rv
               /\ Makes(idx, "fseek") = <<>>)
              => r = LastNewline(data, p)

\* The lines of a log file that holds no zero byte are evaluated once each,
\* none is skipped, and readpos is at a line boundary between the cycles.
TextLinesOnce == [][LinesOnce(FALSE)]_vars

\* C38: a File service whose file is only appended to, the path not under
\* /proc and readpos at a line boundary: in every cycle the lines evaluated
\* are the complete lines from readpos on, each once, no complete line is
\* skipped, and readpos is at a line boundary between the cycles.
C38_EveryLineOnce == [][LinesOnce(TRUE)]_vars

\* Two cycles have read the log file whose fourth line holds a zero byte
\* behind its first byte, the file opened and the seeks succeeding both
\* times: readpos is at 11, the start of that line, in front of two complete
\* lines, and the second of the cycles evaluated no line.
C38_Witness ==
    \E i \in Visited :
        LET s == servicelist[i]
        IN  /\ s.path = LinesPath
            /\ cycle > 0
            /\ s.inf.file.st_size = 18
            /\ s.inf.file.readpos = 11
            /\ CallsOf(i, "fopen") # <<>>
            /\ CallsOf(i, "fopen")[1].rv
            /\ CallsOf(i, "fopen")[1].arg = 11
            /\ CallsOf(i, "fseek") = <<>>
            /\ CallsOf(i, "line") = <<>>
            /\ LastNewline(DataOf(18), 11) = 18
            /\ KindOf(i, "Content") # <<>>

\* The calls on the child of Program service i that the step in progress
\* makes, by name and in order.
ChildCalls(i) ==
    LET made == SelectSeq(calls',
                          LAMBDA k : k.svc = i /\ k.fn \in
                              {"Process_exitStatus", "Process_kill",
                               "Process_waitFor", "Process_free",
                               "Command_execute"})
    IN  [n \in 1..Len(made) |-> made[n].fn]

\* C39: a pass of the main loop over a Program service.  Command_execute is
\* called at most once and only with no handle held: the service held none,
\* or the child it held has ended, or has been killed and waited for, and
\* its handle has been released in the same pass.  A child that is running
\* within its timeout keeps its handle and no program is started.  The
\* handle held afterwards is the one of the start, if it succeeded, and none
\* if it failed; a pass that does not invoke the validator leaves the handle.
C39_OneChild ==
    [][LET s == servicelist[idx]
           after == servicelist'[idx]
           P == s.program.P
           fns == ChildCalls(idx)
           status == Makes(idx, "Process_exitStatus")
           exec == Makes(idx, "Command_execute")
       IN  (pc = "loop" /\ idx' = idx + 1 /\ s.type = "TYPE_PROGRAM")
           => /\ P = NULL
                 => fns \in {<<>>, <<"Command_execute">>}
              /\ P # NULL
                 => /\ fns \in {<<>>, <<"Process_exitStatus">>,
                                <<"Process_exitStatus", "Process_free",
                                  "Command_execute">>,
                                <<"Process_exitStatus", "Process_kill",
                                  "Process_waitFor", "Process_free",
                                  "Command_execute">>}
                    /\ Len(fns) = 3 => status[1].rv >= 0
                    /\ Len(fns) \in {1, 5} => status[1].rv < 0
                    /\ \A n \in 1..Len(Makes(idx, "Process_free")) :
                          Makes(idx, "Process_free")[n].arg = P
                    /\ \A n \in 1..Len(Makes(idx, "Process_kill")) :
                          Makes(idx, "Process_kill")[n].arg = P
              /\ exec = <<>> => after.program.P = P
              /\ exec # <<>>
                 => after.program.P = IF exec[1].rv THEN <<"Process_T">> ELSE NULL]_vars

\* A Program service that held a running child past its timeout: the child
\* was killed and waited for, its handle released, the program started again,
\* and the service holds the handle of the new child.
C39_Witness ==
    \E i \in Visited :
        /\ servicelist[i].type = "TYPE_PROGRAM"
        /\ CallsOf(i, "Process_kill") # <<>>
        /\ CallsOf(i, "Process_free") # <<>>
        /\ CallsOf(i, "Command_execute") # <<>>
        /\ CallsOf(i, "Command_execute")[1].rv
        /\ servicelist[i].program.P # NULL
        /\ cycle > 0

\* C40: the counters of the action-rate test.  With rules, ncycle is between
\* 0 and the largest cycle bound of the rules, and above 0 only while a
\* start is recorded; a call of check_timeout that finds nstart 0 leaves
\* ncycle as it was.  Without rules, check_timeout leaves both counters and
\* posts no Timeout failure.
C40_CounterBounds ==
    \A i \in 1..Len(servicelist) :
        LET s == servicelist[i]
            t == CallsOf(i, "check_timeout")
        IN  /\ s.actionratelist # <<>>
               => /\ 0 <= s.ncycle
                  /\ s.ncycle <= MaxCycle(s.actionratelist)
                  /\ s.ncycle > 0 => s.nstart > 0
            /\ (i \in Visited /\ t # <<>>)
               => /\ t[1].arg.nstart = 0 => s.ncycle = t[1].arg.ncycle
                  /\ s.actionratelist = <<>>
                     => /\ s.ncycle = t[1].arg.ncycle
                        /\ s.nstart = t[1].arg.nstart
                        /\ TimeoutsOf(i) = <<>>

\* A service with rules whose counters were reset in an earlier cycle:
\* check_timeout found nstart 0 and ncycle 0, and ncycle is still 0.
C40_Witness ==
    \E i \in Visited :
        /\ servicelist[i].actionratelist # <<>>
        /\ cycle = MaxCycles - 1
        /\ CallsOf(i, "check_timeout") # <<>>
        /\ CallsOf(i, "check_timeout")[1].arg = [nstart |-> 0, ncycle |-> 0]
        /\ servicelist[i].ncycle = 0
        /\ servicelist[i].nstart = 0

====
